---- MODULE Spec2Model ----
(***************************************************************************)
(* The PolicyManager contract of near_parametric_rust                      *)
(* (src/near_parametric_rust/src/policyManager/src/lib.rs) as a state      *)
(* machine.                                                                *)
(*                                                                         *)
(* Every public method is one action.  A method is translated statement by *)
(* statement: a write to a persistent collection (UnorderedMap::insert)    *)
(* takes effect where the code makes it, and a panic (assert!, unwrap on   *)
(* None, env::panic_str) stops the method at that statement, so what was   *)
(* inserted before the panic is what the contract object holds afterwards. *)
(* The variable ret records the method last called, its key argument and   *)
(* how it ended ("ok" or the panic).                                       *)
(*                                                                         *)
(* The QuoteManager contract                                               *)
(* (src/near_parametric_rust/src/quoteManager/src/lib.rs) is a second      *)
(* state machine over its own variables, translated the same way.  Its     *)
(* timestamps are u64 nanoseconds, written here as days, seconds and       *)
(* nanoseconds so that the arithmetic of get_valid_period keeps its 64-bit *)
(* width.                                                                  *)
(*                                                                         *)
(* Amounts are f64 in the source; the model uses integers, on which f64    *)
(* addition and subtraction are exact in the range used here.  Fields the  *)
(* contract never reads (event_id, oracle triggering values,               *)
(* payout_percent, dates, location, policy_type, the clients map) are left *)
(* out of the records.                                                     *)
(***************************************************************************)
EXTENDS Integers, Sequences, FiniteSets, Bags, TLC

VARIABLES policies, master_admin, new_master_admin, policy_managers,
          obligations, loss_identities, promises, ret,
          undecided_quotes, owner, quote_issuers, standard_days_valid

\* the state of the QuoteManager contract
quote_vars == <<undecided_quotes, owner, quote_issuers, standard_days_valid>>

\* the state of the PolicyManager contract and its outstanding promises
policy_vars == <<policies, master_admin, new_master_admin, policy_managers,
                 obligations, loss_identities, promises>>

vars == <<policies, master_admin, new_master_admin, policy_managers,
          obligations, loss_identities, promises, ret,
          undecided_quotes, owner, quote_issuers, standard_days_valid>>

(***************************************************************************)
(* Bounds of the model.                                                    *)
(***************************************************************************)
\* loss records (computed, obligated, rejected, paid) the store may hold in all
MaxLosses == 2
\* remote computations that may be outstanding at once
MaxInflight == 1
\* length of the policy-activator list
MaxManagers == 2
\* remote computations outstanding at once where the callbacks race
MaxOutstanding == 2

(***************************************************************************)
(* Input domains.                                                          *)
(***************************************************************************)
Deployer == "owner"
Accounts == {"owner", "client", "proc"}
ActivatorInputs == {"proc"}
CandidateInputs == {"client", "proc"}
\* lengths of one delivered result list
BatchLengths == 0..2
\* obligations a saved policy carries
SeedLengths == 0..2
ClaimsManagers == {"claims1", "claims2"}
PolicyIds == {"p1", "p2"}
LossIds == {"l1", "l2"}
ClientIds == {"c1"}
IssuerIds == {"i1"}
Amounts == {200, 900}
\* the losses the claims service computes: one amount per loss id
AmountOf(id) == IF id = "l1" THEN 200 ELSE 900
BalanceInputs == {1000}
Times == {1, 2}
\* env::block_timestamp() of the calls; the obligations a saved policy carries are older
NowInputs == {2}
Proofs == {"tx123"}

Range(s) == {s[i] : i \in 1..Len(s)}


SeqsOfLengths(S, lengths) == UNION {[1..k -> S] : k \in lengths}

RECURSIVE SumSeq(_)
SumSeq(s) == IF s = <<>> THEN 0 ELSE Head(s) + SumSeq(Tail(s))

(***************************************************************************)
(* Data types (lib.rs 189-306).                                            *)
(***************************************************************************)
LossIdentity == [id : LossIds, policy_id : PolicyIds,
                 client_id : ClientIds, issuer_id : IssuerIds]

ComputedLoss == [identity : LossIdentity, amount_due : Amounts]

Obligation == [computed_loss : ComputedLoss, contract_update_time : Times]

Payment == [contract_update_time : Times, payment_proof : Proofs,
            obligation : Obligation]

LossDecision == [accept : BOOLEAN, identity : LossIdentity]

ResolveObligation == [identity : LossIdentity, payment_proof : Proofs]

LossContext == [identity : LossIdentity, claims_manager : ClaimsManagers]

\* two losses for policy p1 and one for policy p2
ComputedLossInputs ==
    {c \in ComputedLoss : /\ c.amount_due = AmountOf(c.identity.id)
                          /\ c.identity.policy_id = "p2" => c.identity.id = "l1"}

\* the identities the callers name: those of the losses above
IdentityInputs == {c.identity : c \in ComputedLossInputs}

DecisionInputs == {d \in LossDecision : d.identity \in IdentityInputs}

ResolveInputs == {r \in ResolveObligation : r.identity \in IdentityInputs}

\* requests that name a computed loss by its id and policy_id but carry
\* another issuer_id or client_id than the loss was computed with
OtherIssuerIds == {"i2"}
OtherClientIds == {"c2"}

ForeignIdentityInputs ==
    {[identity EXCEPT !.issuer_id = issuer_id, !.client_id = client_id] :
        identity \in IdentityInputs,
        issuer_id \in IssuerIds \cup OtherIssuerIds,
        client_id \in ClientIds \cup OtherClientIds} \ IdentityInputs

ForeignDecisionInputs ==
    [accept : BOOLEAN, identity : ForeignIdentityInputs]

ForeignResolveInputs ==
    [identity : ForeignIdentityInputs, payment_proof : Proofs]

\* Option<AccountId>: None is the empty sequence, Some(a) is <<a>>
None == <<>>
Some(a) == <<a>>

\* UnorderedMap::get is m[k] for k \in DOMAIN m; UnorderedMap::insert overwrites
MapInsert(m, k, v) == [x \in DOMAIN m \cup {k} |-> IF x = k THEN v ELSE m[x]]

EmptyMap == [x \in {} |-> 0]

\* Vec::remove(i), 1-based
Remove(s, i) == SubSeq(s, 1, i - 1) \o SubSeq(s, i + 1, Len(s))

\* Vec::swap_remove(i), 1-based: the last element takes the place of the removed
SwapRemove(s, i) ==
    IF i = Len(s) THEN SubSeq(s, 1, Len(s) - 1)
    ELSE [k \in 1..(Len(s) - 1) |-> IF k = i THEN s[Len(s)] ELSE s[k]]

\* faulty variant: a failed search yields the first element
PositionOrFirst(ids, id) ==
    LET hits == {i \in 1..Len(ids) : ids[i] = id}
    IN IF hits = {} THEN (IF ids = <<>> THEN 0 ELSE 1)
       ELSE CHOOSE i \in hits : \A j \in hits : i <= j

\* iter().position(..) over a sequence of ids: the first match, 0 for None
Position(ids, id) ==
    LET hits == {i \in 1..Len(ids) : ids[i] = id}
    IN IF hits = {} THEN 0 ELSE CHOOSE i \in hits : \A j \in hits : i <= j

ObligationIds(vec) == [i \in 1..Len(vec) |-> vec[i].computed_loss.identity.id]
ComputedLossIds(vec) == [i \in 1..Len(vec) |-> vec[i].identity.id]
PaymentIds(vec) == [i \in 1..Len(vec) |-> vec[i].obligation.computed_loss.identity.id]
IdentityIds(vec) == [i \in 1..Len(vec) |-> vec[i].id]

(***************************************************************************)
(* The policies the callers of save_policy send.  save_policy validates    *)
(* nothing, so the stored lists are the caller's: the inputs are policies  *)
(* as the activation path creates them (balance = pending_balance =        *)
(* max_payout, empty lists) and policies carrying open obligations.        *)
(***************************************************************************)
\* the claims service each policy records
ClaimsManagerOf(id) == IF id = "p1" THEN "claims1" ELSE "claims2"

PolicyOf(id, b, obls) ==
    [policy_id |-> id, balance |-> b, pending_balance |-> b, max_payout |-> b,
     authorized_administrator |-> "client", claims_manager |-> ClaimsManagerOf(id),
     payments |-> <<>>, obligations |-> obls,
     rejected_losses |-> <<>>, computed_losses |-> <<>>]

ObligationInputs(id) ==
    {o \in Obligation : /\ o.computed_loss \in ComputedLossInputs
                        /\ o.computed_loss.identity.policy_id = id
                        /\ o.contract_update_time = 1}

PolicyInputs ==
    UNION {{PolicyOf(id, b, obls) : obls \in SeqsOfLengths(ObligationInputs(id), SeedLengths)}
           : <<id, b>> \in PolicyIds \X BalanceInputs}

\* loss records one policy holds
LossCount(policy) ==
    Len(policy.payments) + Len(policy.obligations)
    + Len(policy.rejected_losses) + Len(policy.computed_losses)

RECURSIVE TotalLosses(_)
TotalLosses(pol) ==
    IF DOMAIN pol = {} THEN 0
    ELSE LET k == CHOOSE x \in DOMAIN pol : TRUE
         IN LossCount(pol[k]) + TotalLosses([x \in DOMAIN pol \ {k} |-> pol[x]])

(***************************************************************************)
(* save_policy (lib.rs 394-402): the authorization assert is commented     *)
(* out, the policy is inserted under its own policy_id.                    *)
(***************************************************************************)
\* faulty variant: a stored policy is not replaced
save_policy_keep_first(pol, policy) ==
    IF policy.policy_id \in DOMAIN pol THEN pol
    ELSE MapInsert(pol, policy.policy_id, policy)

save_policy(pol, policy) == MapInsert(pol, policy.policy_id, policy)

\* get_policy (lib.rs 413-415): UnorderedMap::get
get_policy(pol, policy_id) ==
    IF policy_id \in DOMAIN pol THEN Some(pol[policy_id]) ELSE None

(***************************************************************************)
(* post_payment_made (lib.rs 424-462).                                     *)
(***************************************************************************)
\* faulty variant: every caller passes for a policy activator
is_policy_manager_any(managers, caller) == TRUE

is_policy_manager(managers, caller) == caller \in Range(managers)

\* faulty variant: the payment is debited twice
debit_balance_twice(balance, amount_due) == balance - 2 * amount_due

\* faulty variant: the payment leaves the balance as it was
debit_balance_none(balance, amount_due) == balance

debit_balance(balance, amount_due) == balance - amount_due

\* faulty variant: the paid obligation stays in the obligations list
pay_obligation_keep(policy, idx, resolve, now) ==
    LET obligation == policy.obligations[idx]
        completed_payment == [contract_update_time |-> now,
                              payment_proof |-> resolve.payment_proof,
                              obligation |-> obligation]
    IN [policy EXCEPT
          !.payments = Append(@, completed_payment),
          !.balance = debit_balance(@, obligation.computed_loss.amount_due)]

\* faulty variant: the first obligation is removed instead of the one found
pay_obligation_remove_first(policy, idx, resolve, now) ==
    LET obligation == policy.obligations[idx]
        completed_payment == [contract_update_time |-> now,
                              payment_proof |-> resolve.payment_proof,
                              obligation |-> obligation]
    IN [policy EXCEPT
          !.payments = Append(@, completed_payment),
          !.obligations = Remove(@, 1),
          !.balance = debit_balance(@, obligation.computed_loss.amount_due)]

\* faulty variant: the new payment replaces the payments recorded so far
pay_obligation_forget(policy, idx, resolve, now) ==
    LET obligation == policy.obligations[idx]
        completed_payment == [contract_update_time |-> now,
                              payment_proof |-> resolve.payment_proof,
                              obligation |-> obligation]
    IN [policy EXCEPT
          !.payments = <<completed_payment>>,
          !.obligations = Remove(@, idx),
          !.balance = debit_balance(@, obligation.computed_loss.amount_due)]

pay_obligation(policy, idx, resolve, now) ==
    LET obligation == policy.obligations[idx]
        completed_payment == [contract_update_time |-> now,
                              payment_proof |-> resolve.payment_proof,
                              obligation |-> obligation]
    IN [policy EXCEPT
          !.payments = Append(@, completed_payment),
          !.obligations = Remove(@, idx),
          !.balance = debit_balance(@, obligation.computed_loss.amount_due)]

post_payment_made(pol, obl, managers, caller, resolve, now) ==
    LET pid == resolve.identity.policy_id
        iss == resolve.identity.issuer_id
        id  == resolve.identity.id
        stop(p, o, msg) == [policies |-> p, obligations |-> o, status |-> msg]
    IN IF ~ is_policy_manager(managers, caller)
       THEN stop(pol, obl, "POLICY_MANAGER_RESTRICTED")
       ELSE IF pid \notin DOMAIN pol
       THEN stop(pol, obl, "unwrap on None")
       ELSE LET policy == pol[pid]
                idx == Position(ObligationIds(policy.obligations), id)
            IN IF idx = 0
               THEN stop(pol, obl, "OBLIGATION_NOT_FOUND")
               ELSE LET pol2 == MapInsert(pol, pid, pay_obligation(policy, idx, resolve, now))
                    IN IF iss \notin DOMAIN obl
                       THEN stop(pol2, obl, "OBLIGATION_NOT_FOUND_IN_MANAGER")
                       ELSE LET j == Position(ObligationIds(obl[iss]), id)
                            IN IF j = 0
                               THEN stop(pol2, obl, "OBLIGATION_NOT_FOUND_IN_VEC")
                               ELSE stop(pol2, MapInsert(obl, iss, Remove(obl[iss], j)), "ok")

(***************************************************************************)
(* compute_loss (lib.rs 464-473) and compute_loss_callback (475-496).      *)
(***************************************************************************)
\* the request handed to the promise framework: receiver and payload
\* faulty variant: the first context's claims service is addressed
compute_loss_first(loss_contexts) ==
    [to |-> loss_contexts[1].claims_manager, payload |-> loss_contexts]

compute_loss(loss_contexts) ==
    [to |-> loss_contexts[Len(loss_contexts)].claims_manager,
     payload |-> loss_contexts]

\* faulty variant: the floor clamp of the commented-out post_event_update (lib.rs 535-540)
debit_pending_clamped(pending_balance, amount_due) ==
    IF pending_balance - amount_due < 0 THEN 0 ELSE pending_balance - amount_due

debit_pending(pending_balance, amount_due) == pending_balance - amount_due

\* faulty variant: the delivered loss is recorded as an obligation at once
add_computed_loss_as_obligation(policy, computed_loss) ==
    [policy EXCEPT
       !.obligations = Append(@, [computed_loss |-> computed_loss,
                                  contract_update_time |-> 1]),
       !.pending_balance = debit_pending(@, computed_loss.amount_due)]

\* faulty variant: the delivered loss is recorded and pending_balance kept
add_computed_loss_no_debit(policy, computed_loss) ==
    [policy EXCEPT !.computed_losses = Append(@, computed_loss)]

\* faulty variant: the delivered loss replaces the list read earlier
add_computed_loss_overwrite(policy, computed_loss) ==
    [policy EXCEPT
       !.computed_losses = <<computed_loss>>,
       !.pending_balance = debit_pending(@, computed_loss.amount_due)]

\* faulty variant: a loss whose id the policy already holds is not recorded again
add_computed_loss_dedup(policy, computed_loss) ==
    IF computed_loss.identity.id \in Range(ComputedLossIds(policy.computed_losses))
    THEN policy
    ELSE [policy EXCEPT
            !.computed_losses = Append(@, computed_loss),
            !.pending_balance = debit_pending(@, computed_loss.amount_due)]

add_computed_loss(policy, computed_loss) ==
    [policy EXCEPT
       !.computed_losses = Append(@, computed_loss),
       !.pending_balance = debit_pending(@, computed_loss.amount_due)]

\* faulty variant: the loop ends at the first loss whose policy is not stored
RECURSIVE apply_computed_losses_until_missing(_, _)
apply_computed_losses_until_missing(pol, computed_losses) ==
    IF computed_losses = <<>> THEN pol
    ELSE LET c == Head(computed_losses)
             pid == c.identity.policy_id
         IN IF pid \notin DOMAIN pol THEN pol
            ELSE apply_computed_losses_until_missing(
                     MapInsert(pol, pol[pid].policy_id, add_computed_loss(pol[pid], c)),
                     Tail(computed_losses))

RECURSIVE apply_computed_losses(_, _)
apply_computed_losses(pol, computed_losses) ==
    IF computed_losses = <<>> THEN pol
    ELSE LET c == Head(computed_losses)
             pid == c.identity.policy_id
             next == IF pid \in DOMAIN pol
                     THEN MapInsert(pol, pol[pid].policy_id, add_computed_loss(pol[pid], c))
                     ELSE pol
         IN apply_computed_losses(next, Tail(computed_losses))

\* faulty variant: the entries read before the malformed one are applied
compute_loss_callback_partial(pol, result) ==
    IF result.kind = "Failed"
    THEN [policies |-> pol, status |-> "ERR_CALL_FAILED"]
    ELSE IF result.kind = "Malformed"
    THEN [policies |-> apply_computed_losses(pol, result.losses),
          status |-> "ERR_WRONG_VAL_RECEIVED"]
    ELSE [policies |-> apply_computed_losses(pol, result.losses), status |-> "ok"]

\* result: what env::promise_result(0) holds
compute_loss_callback(pol, result) ==
    IF result.kind = "Failed"
    THEN [policies |-> pol, status |-> "ERR_CALL_FAILED"]
    ELSE IF result.kind = "Malformed"
    THEN [policies |-> pol, status |-> "ERR_WRONG_VAL_RECEIVED"]
    ELSE [policies |-> apply_computed_losses(pol, result.losses), status |-> "ok"]

(***************************************************************************)
(* post_loss_decision (lib.rs 570-627).  The issuer's index entry is       *)
(* written at 595, the policy at 612, the client's Loss-Identity Index     *)
(* entry at 621; the lookup at 614-615 is made whether or not the policy   *)
(* exists.                                                                 *)
(***************************************************************************)
\* faulty variant: the rejection forgets the credit
credit_pending_none(pending_balance, amount_due) == pending_balance

\* faulty variant: the rejection credits the loss twice
credit_pending_twice(pending_balance, amount_due) == pending_balance + 2 * amount_due

credit_pending(pending_balance, amount_due) == pending_balance + amount_due

\* faulty variant: every caller passes for the client administrator
is_authorized_administrator_any(policy, caller) == TRUE

\* lines 572-576
is_authorized_administrator(policy, caller) ==
    policy.authorized_administrator = caller

accept_loss(policy, idx, now) ==
    LET new_obligation == [computed_loss |-> policy.computed_losses[idx],
                           contract_update_time |-> now]
    IN [policy EXCEPT
          !.computed_losses = Remove(@, idx),
          !.obligations = Append(@, new_obligation)]

\* faulty variant: the rejected loss is copied, not moved
reject_loss_copy(policy, idx) ==
    LET computed_loss == policy.computed_losses[idx]
    IN [policy EXCEPT
          !.rejected_losses = Append(@, computed_loss),
          !.pending_balance = credit_pending(@, computed_loss.amount_due)]

reject_loss(policy, idx) ==
    LET computed_loss == policy.computed_losses[idx]
    IN [policy EXCEPT
          !.computed_losses = Remove(@, idx),
          !.rejected_losses = Append(@, computed_loss),
          !.pending_balance = credit_pending(@, computed_loss.amount_due)]

\* lines 614-626
remove_loss_identity(pol, obl, ids, decision) ==
    LET cid == decision.identity.client_id
        stop(i, msg) == [policies |-> pol, obligations |-> obl,
                         loss_identities |-> i, status |-> msg]
    IN IF cid \notin DOMAIN ids
       THEN stop(ids, "unwrap on None")
       ELSE LET k == Position(IdentityIds(ids[cid]), decision.identity.id)
            IN IF k = 0
               THEN stop(ids, "LOSS_IDENTITY_NOT_FOUND")
               ELSE stop(MapInsert(ids, cid, Remove(ids[cid], k)), "ok")

post_loss_decision(pol, obl, ids, caller, decision, now) ==
    LET pid == decision.identity.policy_id
        iss == decision.identity.issuer_id
        stop(msg) == [policies |-> pol, obligations |-> obl,
                      loss_identities |-> ids, status |-> msg]
    IN IF pid \notin DOMAIN pol
       THEN remove_loss_identity(pol, obl, ids, decision)
       ELSE LET policy == pol[pid]
                idx == Position(ComputedLossIds(policy.computed_losses),
                                decision.identity.id)
            IN IF ~ is_authorized_administrator(policy, caller)
               THEN stop("Not Authorized to Confirm loss for this client.")
               ELSE IF idx = 0
               THEN stop("COMPUTED_LOSS_NOT_FOUND_IN_POLICY")
               ELSE IF decision.accept
               THEN IF iss \notin DOMAIN obl
                    THEN stop("ISSUER_OBLIGATIONS_NOT_FOUND")
                    ELSE LET accepted == accept_loss(policy, idx, now)
                             new_obligation == accepted.obligations[Len(accepted.obligations)]
                         IN remove_loss_identity(
                                MapInsert(pol, policy.policy_id, accepted),
                                MapInsert(obl, iss, Append(obl[iss], new_obligation)),
                                ids, decision)
               ELSE remove_loss_identity(
                        MapInsert(pol, policy.policy_id, reject_loss(policy, idx)),
                        obl, ids, decision)

(***************************************************************************)
(* Activator list and admin succession (lib.rs 645-703).                   *)
(***************************************************************************)
add_policy_activator(managers, admin, caller, policy_activator) ==
    IF caller # admin
    THEN [policy_managers |-> managers, status |-> "assertion failed"]
    ELSE [policy_managers |-> Append(managers, policy_activator), status |-> "ok"]

remove_policy_activator(managers, admin, caller, policy_activator) ==
    LET index == Position(managers, policy_activator)
    IN IF caller # admin
       THEN [policy_managers |-> managers, status |-> "assertion failed"]
       ELSE IF index = 0
       THEN [policy_managers |-> managers,
             status |-> "That Policy Activator was not found"]
       ELSE [policy_managers |-> SwapRemove(managers, index), status |-> "ok"]

\* faulty variant: the candidate takes the role in the one call
suspend_master_admin_direct(admin, pending, caller, candidate) ==
    IF caller # admin
    THEN [master_admin |-> admin, new_master_admin |-> pending,
          status |-> "only master admin can start abdication process."]
    ELSE [master_admin |-> candidate, new_master_admin |-> None, status |-> "ok"]

suspend_master_admin(admin, pending, caller, candidate) ==
    IF caller # admin
    THEN [master_admin |-> admin, new_master_admin |-> pending,
          status |-> "only master admin can start abdication process."]
    ELSE [master_admin |-> admin, new_master_admin |-> Some(candidate),
          status |-> "ok"]

\* faulty variant: the cancellation leaves the candidate pending
cancel_master_admin_abdication_keep(admin, pending, caller) ==
    IF caller # admin
    THEN [master_admin |-> admin, new_master_admin |-> pending,
          status |-> "only current master admin can do that"]
    ELSE [master_admin |-> admin, new_master_admin |-> pending, status |-> "ok"]

cancel_master_admin_abdication(admin, pending, caller) ==
    IF caller # admin
    THEN [master_admin |-> admin, new_master_admin |-> pending,
          status |-> "only current master admin can do that"]
    ELSE [master_admin |-> admin, new_master_admin |-> None, status |-> "ok"]

\* faulty variant: any caller may claim a pending succession
claim_master_admin_any(admin, pending, caller) ==
    IF pending = None
    THEN [master_admin |-> admin, new_master_admin |-> pending,
          status |-> "No abdication process started"]
    ELSE [master_admin |-> caller, new_master_admin |-> None, status |-> "ok"]

claim_master_admin(admin, pending, caller) ==
    IF pending = None
    THEN [master_admin |-> admin, new_master_admin |-> pending,
          status |-> "No abdication process started"]
    ELSE IF caller # pending[1]
    THEN [master_admin |-> admin, new_master_admin |-> pending,
          status |-> "you are not the new master admin"]
    ELSE [master_admin |-> pending[1], new_master_admin |-> None, status |-> "ok"]

(***************************************************************************)
(* QuoteManager (quoteManager/src/lib.rs).  A quote keeps the fields the   *)
(* contract reads or keys on; triggers_contract, triggers, location and    *)
(* coverage_period are stored as given and never read.                     *)
(***************************************************************************)
\* length of the quote-issuer whitelist
MaxIssuers == 2

QuoteIds == {"q1", "q2"}
IssuerInputs == {"client", "proc"}
OwnerInputs == {"client"}
\* valid_days: a week, and the first value whose nanoseconds exceed u64
DaysInputs == {7, 213504}

QuoteInputs == {[client |-> "c1", id |-> qid, max_payout |-> 1000] : qid \in QuoteIds}

\* a u64 count of nanoseconds, as days + seconds + nanoseconds
Normalized(days, secs, nanos) ==
    LET s == secs + (nanos \div 1000000000)
    IN [days |-> days + (s \div 86400), secs |-> s % 86400,
        nanos |-> nanos % 1000000000]

Nanoseconds(days, secs, nanos) == Normalized(days, secs, nanos)

TimeAdd(a, b) == Normalized(a.days + b.days, a.secs + b.secs, a.nanos + b.nanos)

TimeSub(a, b) == Normalized(a.days - b.days, a.secs - b.secs, a.nanos - b.nanos)

TimeGreater(a, b) ==
    \/ a.days > b.days
    \/ a.days = b.days /\ a.secs > b.secs
    \/ a.days = b.days /\ a.secs = b.secs /\ a.nanos > b.nanos

\* u64::MAX = 18446744073709551615 ns = 213503 d 84873 s 709551615 ns
U64Max == [days |-> 213503, secs |-> 84873, nanos |-> 709551615]

\* 2^64 ns
TwoTo64 == TimeAdd(U64Max, [days |-> 0, secs |-> 0, nanos |-> 1])

\* k * t, by halving k so that no field leaves the range of the checker's integers
RECURSIVE TimeScale(_, _)
TimeScale(t, k) ==
    IF k = 0
    THEN [days |-> 0, secs |-> 0, nanos |-> 0]
    ELSE LET half == TimeScale(t, k \div 2)
             twice == TimeAdd(half, half)
         IN IF k % 2 = 1 THEN TimeAdd(twice, t) ELSE twice

RECURSIVE ReduceU64(_)
ReduceU64(t) == IF TimeGreater(t, U64Max) THEN ReduceU64(TimeSub(t, TwoTo64)) ELSE t

\* t modulo 2^64: what wrapping u64 arithmetic keeps of t.  2^64 ns is less
\* than 213504 days, so t holds at least t.days \div 213504 multiples of it.
WrapU64(t) == ReduceU64(TimeSub(t, TimeScale(TwoTo64, t.days \div 213504)))

\* valid_days * NANO_SECONDS_IN_DAY (lib.rs 206-207), before the u64 range is applied
DaysInNanoseconds(valid_days) == [days |-> valid_days, secs |-> 0, nanos |-> 0]

\* env::block_timestamp() of the calls
TimestampInputs == {Nanoseconds(0, 0, 0), Nanoseconds(8, 100, 5)}

MapRemove(m, k) == [x \in DOMAIN m \ {k} |-> m[x]]

\* get_valid_period (lib.rs 204-211).  The product and the sum are u64: when
\* one of them leaves the range, a build with overflow checks panics and a
\* build without them wraps modulo 2^64.
get_valid_period(days_valid, issuer, now, overflow_checks) ==
    IF issuer \notin DOMAIN days_valid
    THEN [status |-> "valid quote issuer not found", value |-> now]
    ELSE LET product == DaysInNanoseconds(days_valid[issuer])
             sum == TimeAdd(product, now)
         IN IF ~ TimeGreater(sum, U64Max)
            THEN [status |-> "ok", value |-> sum]
            ELSE IF overflow_checks
            THEN [status |-> IF TimeGreater(product, U64Max)
                             THEN "attempt to multiply with overflow"
                             ELSE "attempt to add with overflow",
                  value |-> now]
            ELSE [status |-> "ok", value |-> WrapU64(sum)]

\* is_valid_quote (lib.rs 214-216)
is_valid_quote(undecided_quote, now) == TimeGreater(undecided_quote.accept_deadline, now)

\* lib.rs 95-96: quote_issuers.contains(predecessor)
is_quote_issuer(issuers, caller) == caller \in Range(issuers)

\* issue_quote (lib.rs 84-115)
issue_quote(quotes, issuers, days_valid, caller, quote, now, overflow_checks) ==
    IF ~ is_quote_issuer(issuers, caller)
    THEN [undecided_quotes |-> quotes, status |-> "Not permitted."]
    ELSE LET period == get_valid_period(days_valid, caller, now, overflow_checks)
         IN IF period.status # "ok"
            THEN [undecided_quotes |-> quotes, status |-> period.status]
            ELSE [undecided_quotes |->
                      MapInsert(quotes, quote.id,
                                [quote |-> quote, accept_deadline |-> period.value]),
                  status |-> "ok"]

\* remove_invalid_quote (lib.rs 118-124)
remove_invalid_quote(quotes, own, caller, quote_id, now) ==
    IF caller # own
    THEN [undecided_quotes |-> quotes, status |-> "assertion failed"]
    ELSE IF quote_id \notin DOMAIN quotes
    THEN [undecided_quotes |-> quotes, status |-> "ok"]
    ELSE IF is_valid_quote(quotes[quote_id], now)
    THEN [undecided_quotes |-> quotes, status |-> "quote is still valid"]
    ELSE [undecided_quotes |-> MapRemove(quotes, quote_id), status |-> "ok"]

\* get_quote (lib.rs 153-155)
get_quote(quotes, quote_id) ==
    IF quote_id \in DOMAIN quotes THEN Some(quotes[quote_id]) ELSE None

\* change_days_valid (lib.rs 159-167)
change_days_valid(issuers, days_valid, caller, days) ==
    IF ~ is_quote_issuer(issuers, caller)
    THEN [standard_days_valid |-> days_valid, status |-> "only valid issuer."]
    ELSE [standard_days_valid |-> MapInsert(days_valid, caller, days), status |-> "ok"]

\* change_owner (lib.rs 170-176)
change_owner(own, caller, new_owner) ==
    IF caller # own
    THEN [owner |-> own, status |-> "only owner"]
    ELSE [owner |-> new_owner, status |-> "ok"]

\* add_issuer (lib.rs 179-186)
add_issuer(own, issuers, days_valid, caller, new_issuer, deadline_length) ==
    IF caller # own
    THEN [quote_issuers |-> issuers, standard_days_valid |-> days_valid,
          status |-> "only owner"]
    ELSE [quote_issuers |-> Append(issuers, new_issuer),
          standard_days_valid |-> MapInsert(days_valid, new_issuer, deadline_length),
          status |-> "ok"]

\* remove_issuer (lib.rs 189-201): the period is removed before the issuer is
\* looked up in the whitelist
remove_issuer(own, issuers, days_valid, caller, old_issuer) ==
    LET index == Position(issuers, old_issuer)
    IN IF caller # own
       THEN [quote_issuers |-> issuers, standard_days_valid |-> days_valid,
             status |-> "only owner"]
       ELSE IF index = 0
       THEN [quote_issuers |-> issuers,
             standard_days_valid |-> MapRemove(days_valid, old_issuer),
             status |-> "unwrap on None"]
       ELSE [quote_issuers |-> Remove(issuers, index),
             standard_days_valid |-> MapRemove(days_valid, old_issuer),
             status |-> "ok"]

(***************************************************************************)
(* Inputs of the remote leg.                                               *)
(***************************************************************************)
ContextInputs ==
    {c \in LossContext : c.identity.id = "l1" /\ c.identity.policy_id = "p1"}

ContextOf(claims_manager) ==
    CHOOSE c \in ContextInputs : c.claims_manager = claims_manager

ContextListInputs ==
    {<<>>, <<ContextOf("claims1"), ContextOf("claims2")>>}

\* a payload that does not deserialize: the well-formed entries it starts with
MalformedPrefixLengths == 0..1

ResultInputs ==
    {[kind |-> "Failed", losses |-> <<>>]}
    \cup {[kind |-> "Malformed", losses |-> l] :
             l \in SeqsOfLengths(ComputedLossInputs, MalformedPrefixLengths)}
    \cup {[kind |-> "Successful", losses |-> l] : l \in SeqsOfLengths(ComputedLossInputs, BatchLengths)}

\* the method last called, the loss it named, and how the call ended
Called(op, policy_id, id, status) ==
    [op |-> op, policy_id |-> policy_id, id |-> id, status |-> status]

(***************************************************************************)
(* The state after PolicyManager::new (lib.rs 367-381), called by the      *)
(* deployer.                                                               *)
(***************************************************************************)
Init ==
    /\ policies = EmptyMap
    /\ master_admin = Deployer
    /\ new_master_admin = None
    /\ policy_managers = <<>>
    /\ obligations = EmptyMap
    /\ loss_identities = EmptyMap
    /\ promises = EmptyBag
    /\ ret = Called("new", "", "", "ok")
    /\ undecided_quotes = EmptyMap
    /\ owner = Deployer
    /\ quote_issuers = <<>>
    /\ standard_days_valid = EmptyMap

\* the caller (env::predecessor_account_id()) is not read: the assert of lines
\* 395-398 is commented out
SavePolicyStep(caller, policy) ==
    /\ TotalLosses(save_policy(policies, policy)) <= MaxLosses
    /\ policies' = save_policy(policies, policy)
    /\ ret' = Called("save_policy", policy.policy_id, "", "ok")
    /\ UNCHANGED <<master_admin, new_master_admin, policy_managers,
                   obligations, loss_identities, promises>>
    /\ UNCHANGED quote_vars

SavePolicy ==
    \E caller \in Accounts, policy \in PolicyInputs : SavePolicyStep(caller, policy)

PostPaymentMadeStep(caller, resolve, now) ==
    LET r == post_payment_made(policies, obligations, policy_managers,
                               caller, resolve, now)
    IN /\ policies' = r.policies
       /\ obligations' = r.obligations
       /\ ret' = Called("post_payment_made", resolve.identity.policy_id,
                        resolve.identity.id, r.status)
       /\ UNCHANGED <<master_admin, new_master_admin, policy_managers,
                      loss_identities, promises>>
       /\ UNCHANGED quote_vars

PostPaymentMade ==
    \E caller \in Accounts, resolve \in ResolveInputs, now \in NowInputs :
        PostPaymentMadeStep(caller, resolve, now)

PostPaymentMadeForeign ==
    \E caller \in Accounts, resolve \in ForeignResolveInputs, now \in NowInputs :
        PostPaymentMadeStep(caller, resolve, now)

\* compute_loss while fewer than `limit` requests are outstanding
ComputeLossUpTo(loss_contexts, limit) ==
    /\ IF loss_contexts = <<>>
       THEN /\ promises' = promises
            /\ ret' = Called("compute_loss", "", "", "unwrap on None")
       ELSE /\ BagCardinality(promises) < limit
            /\ promises' = promises (+) SetToBag({compute_loss(loss_contexts)})
            /\ ret' = Called("compute_loss", "", "", "ok")
    /\ UNCHANGED <<policies, master_admin, new_master_admin, policy_managers,
                   obligations, loss_identities>>
    /\ UNCHANGED quote_vars

ComputeLossStep(loss_contexts) == ComputeLossUpTo(loss_contexts, MaxInflight)

ComputeLoss == \E loss_contexts \in ContextListInputs : ComputeLossStep(loss_contexts)

\* compute_loss called again before the earlier callback has run
ComputeLossRaceStep(loss_contexts) == ComputeLossUpTo(loss_contexts, MaxOutstanding)

ComputeLossRace ==
    \E loss_contexts \in ContextListInputs : ComputeLossRaceStep(loss_contexts)

\* the promise framework resolves an outstanding request and runs the callback
ComputeLossCallbackStep(request, result) ==
    LET r == compute_loss_callback(policies, result)
    IN /\ request \in BagToSet(promises)
       /\ TotalLosses(r.policies) <= MaxLosses
       /\ promises' = promises (-) SetToBag({request})
       /\ policies' = r.policies
       /\ ret' = Called("compute_loss_callback", "", "", r.status)
       /\ UNCHANGED <<master_admin, new_master_admin, policy_managers,
                      obligations, loss_identities>>
       /\ UNCHANGED quote_vars

ComputeLossCallback ==
    \E request \in BagToSet(promises), result \in ResultInputs :
        ComputeLossCallbackStep(request, result)

PostLossDecisionStep(caller, decision, now) ==
    LET r == post_loss_decision(policies, obligations, loss_identities,
                                caller, decision, now)
    IN /\ policies' = r.policies
       /\ obligations' = r.obligations
       /\ loss_identities' = r.loss_identities
       /\ ret' = Called("post_loss_decision", decision.identity.policy_id,
                        decision.identity.id, r.status)
       /\ UNCHANGED <<master_admin, new_master_admin, policy_managers, promises>>
       /\ UNCHANGED quote_vars

PostLossDecision ==
    \E caller \in Accounts, decision \in DecisionInputs, now \in NowInputs :
        PostLossDecisionStep(caller, decision, now)

PostLossDecisionForeign ==
    \E caller \in Accounts, decision \in ForeignDecisionInputs, now \in NowInputs :
        PostLossDecisionStep(caller, decision, now)

AddPolicyActivatorStep(caller, policy_activator) ==
    LET r == add_policy_activator(policy_managers, master_admin,
                                  caller, policy_activator)
    IN /\ Len(r.policy_managers) <= MaxManagers
       /\ policy_managers' = r.policy_managers
       /\ ret' = Called("add_policy_activator", "", "", r.status)
       /\ UNCHANGED <<policies, master_admin, new_master_admin,
                      obligations, loss_identities, promises>>
       /\ UNCHANGED quote_vars

AddPolicyActivator ==
    \E caller \in Accounts, policy_activator \in ActivatorInputs :
        AddPolicyActivatorStep(caller, policy_activator)

RemovePolicyActivatorStep(caller, policy_activator) ==
    LET r == remove_policy_activator(policy_managers, master_admin,
                                     caller, policy_activator)
    IN /\ policy_managers' = r.policy_managers
       /\ ret' = Called("remove_policy_activator", "", "", r.status)
       /\ UNCHANGED <<policies, master_admin, new_master_admin,
                      obligations, loss_identities, promises>>
       /\ UNCHANGED quote_vars

RemovePolicyActivator ==
    \E caller \in Accounts, policy_activator \in ActivatorInputs :
        RemovePolicyActivatorStep(caller, policy_activator)

SuspendMasterAdminStep(caller, candidate) ==
    LET r == suspend_master_admin(master_admin, new_master_admin, caller, candidate)
    IN /\ master_admin' = r.master_admin
       /\ new_master_admin' = r.new_master_admin
       /\ ret' = Called("suspend_master_admin", "", "", r.status)
       /\ UNCHANGED <<policies, policy_managers, obligations,
                      loss_identities, promises>>
       /\ UNCHANGED quote_vars

SuspendMasterAdmin ==
    \E caller \in Accounts, candidate \in CandidateInputs :
        SuspendMasterAdminStep(caller, candidate)

CancelMasterAdminAbdicationStep(caller) ==
    LET r == cancel_master_admin_abdication(master_admin, new_master_admin, caller)
    IN /\ master_admin' = r.master_admin
       /\ new_master_admin' = r.new_master_admin
       /\ ret' = Called("cancel_master_admin_abdication", "", "", r.status)
       /\ UNCHANGED <<policies, policy_managers, obligations,
                      loss_identities, promises>>
       /\ UNCHANGED quote_vars

CancelMasterAdminAbdication ==
    \E caller \in Accounts : CancelMasterAdminAbdicationStep(caller)

ClaimMasterAdminStep(caller) ==
    LET r == claim_master_admin(master_admin, new_master_admin, caller)
    IN /\ master_admin' = r.master_admin
       /\ new_master_admin' = r.new_master_admin
       /\ ret' = Called("claim_master_admin", "", "", r.status)
       /\ UNCHANGED <<policies, policy_managers, obligations,
                      loss_identities, promises>>
       /\ UNCHANGED quote_vars

ClaimMasterAdmin ==
    \E caller \in Accounts : ClaimMasterAdminStep(caller)

(***************************************************************************)
(* The methods of QuoteManager.  issue_policy (lib.rs 128-150) checks the  *)
(* whitelist and hands a valid quote to the policy manager in an outbound  *)
(* call; it writes nothing.                                                *)
(***************************************************************************)
IssueQuoteStep(caller, quote, now, overflow_checks) ==
    LET r == issue_quote(undecided_quotes, quote_issuers, standard_days_valid,
                         caller, quote, now, overflow_checks)
    IN /\ undecided_quotes' = r.undecided_quotes
       /\ ret' = Called("issue_quote", "", quote.id, r.status)
       /\ UNCHANGED <<owner, quote_issuers, standard_days_valid>>
       /\ UNCHANGED policy_vars

IssueQuote ==
    \E caller \in Accounts, quote \in QuoteInputs, now \in TimestampInputs,
       overflow_checks \in BOOLEAN :
        IssueQuoteStep(caller, quote, now, overflow_checks)

RemoveInvalidQuoteStep(caller, quote_id, now) ==
    LET r == remove_invalid_quote(undecided_quotes, owner, caller, quote_id, now)
    IN /\ undecided_quotes' = r.undecided_quotes
       /\ ret' = Called("remove_invalid_quote", "", quote_id, r.status)
       /\ UNCHANGED <<owner, quote_issuers, standard_days_valid>>
       /\ UNCHANGED policy_vars

RemoveInvalidQuote ==
    \E caller \in Accounts, quote_id \in QuoteIds, now \in TimestampInputs :
        RemoveInvalidQuoteStep(caller, quote_id, now)

IssuePolicyStep(caller, quote_id, now) ==
    /\ ret' = Called("issue_policy", "", quote_id,
                     IF is_quote_issuer(quote_issuers, caller)
                     THEN "ok" ELSE "Not permitted.")
    /\ UNCHANGED quote_vars
    /\ UNCHANGED policy_vars

IssuePolicy ==
    \E caller \in Accounts, quote_id \in QuoteIds, now \in TimestampInputs :
        IssuePolicyStep(caller, quote_id, now)

ChangeDaysValidStep(caller, days) ==
    LET r == change_days_valid(quote_issuers, standard_days_valid, caller, days)
    IN /\ standard_days_valid' = r.standard_days_valid
       /\ ret' = Called("change_days_valid", "", "", r.status)
       /\ UNCHANGED <<undecided_quotes, owner, quote_issuers>>
       /\ UNCHANGED policy_vars

ChangeDaysValid ==
    \E caller \in Accounts, days \in DaysInputs : ChangeDaysValidStep(caller, days)

ChangeOwnerStep(caller, new_owner) ==
    LET r == change_owner(owner, caller, new_owner)
    IN /\ owner' = r.owner
       /\ ret' = Called("change_owner", "", "", r.status)
       /\ UNCHANGED <<undecided_quotes, quote_issuers, standard_days_valid>>
       /\ UNCHANGED policy_vars

ChangeOwner ==
    \E caller \in Accounts, new_owner \in OwnerInputs : ChangeOwnerStep(caller, new_owner)

AddIssuerStep(caller, new_issuer, deadline_length) ==
    LET r == add_issuer(owner, quote_issuers, standard_days_valid,
                        caller, new_issuer, deadline_length)
    IN /\ Len(r.quote_issuers) <= MaxIssuers
       /\ quote_issuers' = r.quote_issuers
       /\ standard_days_valid' = r.standard_days_valid
       /\ ret' = Called("add_issuer", "", "", r.status)
       /\ UNCHANGED <<undecided_quotes, owner>>
       /\ UNCHANGED policy_vars

AddIssuer ==
    \E caller \in Accounts, new_issuer \in IssuerInputs, deadline_length \in DaysInputs :
        AddIssuerStep(caller, new_issuer, deadline_length)

RemoveIssuerStep(caller, old_issuer) ==
    LET r == remove_issuer(owner, quote_issuers, standard_days_valid,
                           caller, old_issuer)
    IN /\ quote_issuers' = r.quote_issuers
       /\ standard_days_valid' = r.standard_days_valid
       /\ ret' = Called("remove_issuer", "", "", r.status)
       /\ UNCHANGED <<undecided_quotes, owner>>
       /\ UNCHANGED policy_vars

RemoveIssuer ==
    \E caller \in Accounts, old_issuer \in IssuerInputs :
        RemoveIssuerStep(caller, old_issuer)

QuoteNext ==
    \/ IssueQuote
    \/ RemoveInvalidQuote
    \/ IssuePolicy
    \/ ChangeDaysValid
    \/ ChangeOwner
    \/ AddIssuer
    \/ RemoveIssuer

SpecQuote == Init /\ [][QuoteNext]_vars

\* the ledger: policy store, remote leg, obligation lifecycle, activator list
LedgerNext ==
    \/ SavePolicy
    \/ PostPaymentMade
    \/ ComputeLoss
    \/ ComputeLossCallback
    \/ PostLossDecision
    \/ AddPolicyActivator
    \/ RemovePolicyActivator

SpecLedger == Init /\ [][LedgerNext]_vars

\* the remote leg with several requests outstanding, and the decisions and
\* payments that interleave with their callbacks
RaceNext ==
    \/ SavePolicy
    \/ ComputeLossRace
    \/ ComputeLossCallback
    \/ PostLossDecision
    \/ PostPaymentMade
    \/ AddPolicyActivator

SpecRace == Init /\ [][RaceNext]_vars

\* the ledger with decisions and payments whose issuer_id or client_id is
\* not the one of the loss they name
IdentityNext ==
    \/ SavePolicy
    \/ ComputeLoss
    \/ ComputeLossCallback
    \/ PostLossDecision
    \/ PostLossDecisionForeign
    \/ PostPaymentMade
    \/ PostPaymentMadeForeign
    \/ AddPolicyActivator

SpecIdentity == Init /\ [][IdentityNext]_vars

\* admin succession and the operations the master admin guards, with ledger
\* operations in between
AdminNext ==
    \/ SuspendMasterAdmin
    \/ CancelMasterAdminAbdication
    \/ ClaimMasterAdmin
    \/ AddPolicyActivator
    \/ RemovePolicyActivator
    \/ SavePolicy
    \/ ComputeLoss

SpecAdmin == Init /\ [][AdminNext]_vars

Next ==
    \/ LedgerNext
    \/ SuspendMasterAdmin
    \/ CancelMasterAdminAbdication
    \/ ClaimMasterAdmin

Spec == Init /\ [][Next]_vars

(***************************************************************************)
(* Vocabulary of the properties.                                           *)
(***************************************************************************)
\* the identity ids of the four loss lists of a policy, concatenated
ListIds(policy) ==
    PaymentIds(policy.payments) \o ObligationIds(policy.obligations)
    \o ComputedLossIds(policy.rejected_losses)
    \o ComputedLossIds(policy.computed_losses)

NoDuplicate(s) == \A i, j \in 1..Len(s) : i # j => s[i] # s[j]

DeliveredTo(losses, pid) ==
    SelectSeq(losses, LAMBDA c : c.identity.policy_id = pid)

AmountsOf(losses) == [i \in 1..Len(losses) |-> losses[i].amount_due]

\* a callback result that repeats an id or names one its policy already holds
DuplicateDelivery(result) ==
    \E pid \in DOMAIN policies :
        ~ NoDuplicate(ListIds(policies[pid])
                      \o ComputedLossIds(DeliveredTo(result.losses, pid)))

\* a step that brings a duplicate identity into the store from outside
DuplicateInputStep ==
    \/ /\ ret'.op = "compute_loss_callback"
       /\ \E request \in BagToSet(promises), result \in ResultInputs :
             DuplicateDelivery(result) /\ ComputeLossCallbackStep(request, result)
    \/ /\ ret'.op = "save_policy"
       /\ \E caller \in Accounts, policy \in PolicyInputs :
             ~ NoDuplicate(ListIds(policy)) /\ SavePolicyStep(caller, policy)

Successful(losses) == [kind |-> "Successful", losses |-> losses]

(***************************************************************************)
(* C1                                                                      *)
(***************************************************************************)
AtMostOnePaymentPerIdentity ==
    \A pid \in DOMAIN policies : NoDuplicate(PaymentIds(policies[pid].payments))

\* a call by an activator for an identity that is among the policy's payments
RepeatedPayment(caller, resolve, now) ==
    /\ ret'.op = "post_payment_made"
    /\ is_policy_manager(policy_managers, caller)
    /\ resolve.identity.policy_id \in DOMAIN policies
    /\ resolve.identity.id
         \in Range(PaymentIds(policies[resolve.identity.policy_id].payments))
    /\ PostPaymentMadeStep(caller, resolve, now)

RepeatedPaymentFails ==
    /\ ret'.status = "OBLIGATION_NOT_FOUND"
    /\ policies' = policies
    /\ obligations' = obligations

\* C1 as stated: every state has at most one Payment per loss identity in each
\* policy, and post_payment_made for an identity already paid fails with
\* OBLIGATION_NOT_FOUND and changes neither a policy nor the index.
C1_NoObligationPaidTwice ==
    /\ []AtMostOnePaymentPerIdentity
    /\ [][\A caller \in Accounts, resolve \in ResolveInputs, now \in NowInputs :
            RepeatedPayment(caller, resolve, now) => RepeatedPaymentFails]_vars

Count(ids, id) == Cardinality({i \in 1..Len(ids) : ids[i] = id})

\* every post_payment_made step keeps, per policy and identity id, the number of
\* its obligations plus the number of its Payments
PaymentMovesObligation ==
    ret'.op = "post_payment_made"
    => /\ DOMAIN policies' = DOMAIN policies
       /\ \A pid \in DOMAIN policies, id \in LossIds :
             Count(PaymentIds(policies'[pid].payments), id)
               + Count(ObligationIds(policies'[pid].obligations), id)
             = Count(PaymentIds(policies[pid].payments), id)
               + Count(ObligationIds(policies[pid].obligations), id)

\* C1 amended: post_payment_made for an identity that is paid and has no
\* obligation left in the policy fails with OBLIGATION_NOT_FOUND and changes
\* nothing; every payment takes one obligation of the identity out of the policy
\* for the Payment it adds; and from policies whose lists hold every id once,
\* only a step that feeds a duplicate id in (a re-delivered callback result or a
\* saved policy holding an id twice) leads to two Payments of one identity.
C1_NoObligationPaidTwiceUniqueIds ==
    [][/\ \A caller \in Accounts, resolve \in ResolveInputs, now \in NowInputs :
            (/\ RepeatedPayment(caller, resolve, now)
             /\ resolve.identity.id \notin
                  Range(ObligationIds(policies[resolve.identity.policy_id].obligations)))
            => RepeatedPaymentFails
       /\ PaymentMovesObligation
       /\ (\A pid \in DOMAIN policies : NoDuplicate(ListIds(policies[pid])))
            => (AtMostOnePaymentPerIdentity' \/ DuplicateInputStep)]_vars

C1_Witness ==
    /\ ret.op = "post_payment_made"
    /\ ret.status = "OBLIGATION_NOT_FOUND"
    /\ ret.policy_id \in DOMAIN policies
    /\ NoDuplicate(ListIds(policies[ret.policy_id]))
    /\ ret.id \in Range(PaymentIds(policies[ret.policy_id].payments))

(***************************************************************************)
(* C2                                                                      *)
(***************************************************************************)
\* C2: every stored policy has 0 <= balance <= quote.max_payout
C2_BalanceWithinBounds ==
    \A pid \in DOMAIN policies :
        /\ 0 <= policies[pid].balance
        /\ policies[pid].balance <= policies[pid].max_payout

(***************************************************************************)
(* C3, C4                                                                  *)
(***************************************************************************)
Disjoint(a, b) == Range(a) \cap Range(b) = {}

MutuallyExclusive(policy) ==
    LET paid == PaymentIds(policy.payments)
        obligated == ObligationIds(policy.obligations)
        rejected == ComputedLossIds(policy.rejected_losses)
        computed == ComputedLossIds(policy.computed_losses)
    IN /\ Disjoint(computed, obligated) /\ Disjoint(computed, rejected)
       /\ Disjoint(computed, paid) /\ Disjoint(obligated, rejected)
       /\ Disjoint(obligated, paid) /\ Disjoint(rejected, paid)

\* C3 as stated: in every state no loss identity is in two of the lists
\* computed_losses, obligations, rejected_losses, payments of a policy.
C3_MutualExclusion ==
    \A pid \in DOMAIN policies : MutuallyExclusive(policies[pid])

UniqueIdentities ==
    \A pid \in DOMAIN policies : NoDuplicate(ListIds(policies[pid]))

\* C3 amended: from a state whose policies hold every identity id once, every
\* step leads to a state where no identity is in two lists of a policy, except a
\* step that feeds a duplicate id in (a callback result repeating an id or
\* naming one the policy holds, or a saved policy that holds one twice).
C3_MutualExclusionUniqueIds ==
    [][UniqueIdentities => (C3_MutualExclusion' \/ DuplicateInputStep)]_vars

C3_Witness ==
    /\ UniqueIdentities
    /\ ret.op = "post_loss_decision"
    /\ \E pid \in DOMAIN policies :
          /\ policies[pid].rejected_losses # <<>>
          /\ policies[pid].computed_losses # <<>>

\* C4 as stated: in every state each loss identity occurs at most once in the
\* concatenation of a policy's four lists.
C4_IdentityUnique == UniqueIdentities

\* C4 amended: each identity id occurs at most once in the four lists of every
\* policy initially, and a step loses this only by feeding a duplicate id in
\* (callback result or saved policy); decisions and payments move records.
C4_IdentityUniqueUnlessDuplicateInput ==
    /\ UniqueIdentities
    /\ [][UniqueIdentities => (UniqueIdentities' \/ DuplicateInputStep)]_vars

C4_Witness ==
    /\ UniqueIdentities
    /\ ret.op = "post_payment_made"
    /\ \E pid \in DOMAIN policies :
          /\ policies[pid].payments # <<>>
          /\ policies[pid].obligations # <<>>

(***************************************************************************)
(* C5, C6                                                                  *)
(***************************************************************************)
IndexedObligationIdentities(issuer_id) ==
    IF issuer_id \in DOMAIN obligations
    THEN {o.computed_loss.identity : o \in Range(obligations[issuer_id])}
    ELSE {}

PolicyObligationIdentities ==
    UNION {{o.computed_loss.identity : o \in Range(policies[pid].obligations)}
           : pid \in DOMAIN policies}

\* C5: an obligation is in the index under its issuer's id iff it is in the
\* obligations list of a policy, matched by loss identity.
C5_DualWrite ==
    \A identity \in LossIdentity :
        identity \in IndexedObligationIdentities(identity.issuer_id)
        <=> identity \in PolicyObligationIdentities

IndexedLossIdentities(client_id) ==
    IF client_id \in DOMAIN loss_identities
    THEN Range(loss_identities[client_id])
    ELSE {}

PolicyComputedIdentities ==
    UNION {{c.identity : c \in Range(policies[pid].computed_losses)}
           : pid \in DOMAIN policies}

\* C6: an identity is in loss_identities[client_id] iff its ComputedLoss is in
\* the computed_losses of a policy.
C6_LossIdentityIndex ==
    \A identity \in LossIdentity :
        identity \in IndexedLossIdentities(identity.client_id)
        <=> identity \in PolicyComputedIdentities

(***************************************************************************)
(* C7, C8                                                                  *)
(***************************************************************************)
AcceptBy(policy, idx, now) ==
    post_loss_decision(policies, obligations, loss_identities,
                       policy.authorized_administrator,
                       [accept |-> TRUE,
                        identity |-> policy.computed_losses[idx].identity], now)

\* C7: accepting a computed loss and then paying the obligation lowers balance
\* by the loss's amount_due, appends one Payment of that obligation, and leaves
\* the obligation neither in the policy nor in the issuer's index.
C7_AcceptThenPay ==
    \A pid \in DOMAIN policies, activator \in Range(policy_managers),
       now \in NowInputs, proof \in Proofs :
        \A idx \in 1..Len(policies[pid].computed_losses) :
            LET before == policies[pid]
                c == before.computed_losses[idx]
                accepted == AcceptBy(before, idx, now)
                paid == post_payment_made(accepted.policies, accepted.obligations,
                                          policy_managers, activator,
                                          [identity |-> c.identity,
                                           payment_proof |-> proof], now)
                after == paid.policies[pid]
            IN /\ after.balance = before.balance - c.amount_due
               /\ Len(after.payments) = Len(before.payments) + 1
               /\ after.payments[Len(after.payments)].obligation.computed_loss = c
               /\ after.obligations = before.obligations
               /\ c.identity.issuer_id \in DOMAIN paid.obligations
               /\ c.identity \notin {o.computed_loss.identity :
                                      o \in Range(paid.obligations[c.identity.issuer_id])}

\* C8: on a ledger built by new, save_policy and the callback, the client
\* administrator's accept of a computed loss succeeds, adds one Obligation of
\* that loss to the policy and to the issuer's index, takes the loss out of
\* computed_losses and leaves both balances.
C8_AcceptCreatesObligation ==
    \A pid \in DOMAIN policies, now \in NowInputs :
        \A idx \in 1..Len(policies[pid].computed_losses) :
            LET before == policies[pid]
                c == before.computed_losses[idx]
                issuer_id == c.identity.issuer_id
                new_obligation == [computed_loss |-> c, contract_update_time |-> now]
                r == AcceptBy(before, idx, now)
                after == r.policies[pid]
            IN /\ r.status = "ok"
               /\ after.obligations = Append(before.obligations, new_obligation)
               /\ issuer_id \in DOMAIN r.obligations
               /\ new_obligation \in Range(r.obligations[issuer_id])
               /\ after.computed_losses = Remove(before.computed_losses, idx)
               /\ after.balance = before.balance
               /\ after.pending_balance = before.pending_balance

(***************************************************************************)
(* C9                                                                      *)
(***************************************************************************)
\* C9: a successful compute_loss_callback appends, for every stored policy, the
\* delivered losses naming it to the end of its computed_losses in delivery
\* order and lowers its pending_balance by their amount_due (below zero where
\* it comes to that), and changes nothing else of any policy.
C9_CallbackAppendsAndDebits ==
    [][\A request \in BagToSet(promises), result \in ResultInputs :
          (/\ ret'.op = "compute_loss_callback"
           /\ result.kind = "Successful"
           /\ ComputeLossCallbackStep(request, result))
          => /\ ret'.status = "ok"
             /\ DOMAIN policies' = DOMAIN policies
             /\ \A pid \in DOMAIN policies :
                   LET delivered == DeliveredTo(result.losses, pid)
                       before == policies[pid]
                       after == policies'[pid]
                   IN /\ after.computed_losses = before.computed_losses \o delivered
                      /\ after.pending_balance
                           = before.pending_balance - SumSeq(AmountsOf(delivered))
                      /\ after = [before EXCEPT
                                    !.computed_losses = after.computed_losses,
                                    !.pending_balance = after.pending_balance]]_vars

\* Scenario A, and a pending_balance driven below zero
C9_Witness ==
    /\ ret.op = "compute_loss_callback"
    /\ ret.status = "ok"
    /\ "p1" \in DOMAIN policies
    /\ policies["p1"].balance = 1000
    /\ policies["p1"].pending_balance = 800
    /\ Len(policies["p1"].computed_losses) = 1
    /\ policies["p1"].computed_losses[1].amount_due = 200

(***************************************************************************)
(* C10                                                                     *)
(***************************************************************************)
\* the callback delivers c, then the client administrator rejects it
Rejected(c, now) ==
    LET computed == compute_loss_callback(policies, Successful(<<c>>))
    IN post_loss_decision(computed.policies, obligations, loss_identities,
                          policies[c.identity.policy_id].authorized_administrator,
                          [accept |-> FALSE, identity |-> c.identity], now)

RejectRestores(c, now) ==
    LET pid == c.identity.policy_id
        before == policies[pid]
        decided == Rejected(c, now)
        after == decided.policies[pid]
    IN /\ after.pending_balance = before.pending_balance
       /\ after.rejected_losses = Append(before.rejected_losses, c)
       /\ c.identity.id \notin Range(ComputedLossIds(after.computed_losses))
       /\ after.balance = before.balance
       /\ after.obligations = before.obligations
       /\ decided.obligations = obligations

\* C10 as stated: after a loss is computed for a policy and then rejected,
\* pending_balance is what it was before the callback, the loss is the last
\* entry of rejected_losses and gone from computed_losses, and balance and
\* obligations are unchanged.
C10_RejectRestoresPending ==
    \A c \in ComputedLossInputs, now \in NowInputs :
        c.identity.policy_id \in DOMAIN policies => RejectRestores(c, now)

\* C10 amended: the same holds of the stored policy for a loss whose identity
\* id was not already in the policy's computed_losses when the callback
\* delivered it.
C10_RejectRestoresPendingNewId ==
    \A c \in ComputedLossInputs, now \in NowInputs :
        (/\ c.identity.policy_id \in DOMAIN policies
         /\ c.identity.id \notin
              Range(ComputedLossIds(policies[c.identity.policy_id].computed_losses)))
        => RejectRestores(c, now)

\* Scenario B
C10_Witness ==
    /\ ret.op = "post_loss_decision"
    /\ "p1" \in DOMAIN policies
    /\ policies["p1"].pending_balance = 1000
    /\ policies["p1"].balance = 1000
    /\ Len(policies["p1"].rejected_losses) = 1
    /\ policies["p1"].rejected_losses[1].identity.id = ret.id
    /\ policies["p1"].computed_losses = <<>>

(***************************************************************************)
(* C11                                                                     *)
(***************************************************************************)
\* the step is a post_payment_made that appended a Payment to the policy
PaidIn(pid) ==
    /\ ret'.op = "post_payment_made"
    /\ ret'.policy_id = pid
    /\ Len(policies'[pid].payments) = Len(policies[pid].payments) + 1

\* balance after the step: lower by the amount_due of the obligation that the
\* step moved to payments, or what it was
BalanceFrame(pid) ==
    LET before == policies[pid]
        after == policies'[pid]
    IN IF PaidIn(pid)
       THEN LET paid == after.payments[Len(after.payments)].obligation
            IN /\ paid \in Range(before.obligations)
               /\ paid.computed_loss.identity.id = ret'.id
               /\ after.balance = before.balance - paid.computed_loss.amount_due
       ELSE after.balance = before.balance

\* C11 as stated: in every step every stored policy stays stored and its
\* balance is unchanged, except in a post_payment_made step that moves an
\* obligation to payments, where it falls by that obligation's amount_due;
\* save_policy on an existing id is no exception.
C11_BalanceFrame ==
    [][\A pid \in DOMAIN policies :
          pid \in DOMAIN policies' /\ BalanceFrame(pid)]_vars

\* C11 amended: the same for every step but save_policy, which replaces the
\* stored policy, balance included, by the caller's.
C11_BalanceFrameExceptSave ==
    [][ret'.op # "save_policy"
       => \A pid \in DOMAIN policies :
             pid \in DOMAIN policies' /\ BalanceFrame(pid)]_vars

\* a payment has lowered the balance of p1 from 1000 to 800
C11_Witness ==
    /\ ret.op = "post_payment_made"
    /\ "p1" \in DOMAIN policies
    /\ Len(policies["p1"].payments) = 1
    /\ policies["p1"].payments[1].obligation.computed_loss.amount_due = 200
    /\ policies["p1"].balance = 800

(***************************************************************************)
(* C12                                                                     *)
(***************************************************************************)
\* the step is a post_loss_decision that appended a loss to rejected_losses
RejectedIn(pid) ==
    /\ ret'.op = "post_loss_decision"
    /\ ret'.policy_id = pid
    /\ Len(policies'[pid].rejected_losses) = Len(policies[pid].rejected_losses) + 1

\* pending_balance after the step: lower by the amount_due of the losses a
\* callback appended, higher by the amount_due of the loss a rejection moved
\* to rejected_losses, or what it was
PendingFrame(pid) ==
    LET before == policies[pid]
        after == policies'[pid]
    IN IF ret'.op = "compute_loss_callback"
       THEN LET added == SubSeq(after.computed_losses,
                                Len(before.computed_losses) + 1,
                                Len(after.computed_losses))
            IN /\ after.computed_losses = before.computed_losses \o added
               /\ after.pending_balance
                    = before.pending_balance - SumSeq(AmountsOf(added))
       ELSE IF RejectedIn(pid)
       THEN LET rejected == after.rejected_losses[Len(after.rejected_losses)]
            IN /\ rejected \in Range(before.computed_losses)
               /\ rejected.identity.id = ret'.id
               /\ after.pending_balance
                    = before.pending_balance + rejected.amount_due
       ELSE after.pending_balance = before.pending_balance

\* C12 as stated: in every step every stored policy stays stored and its
\* pending_balance falls only in a compute_loss_callback step, by the
\* amount_due of the losses appended, rises only in a rejecting
\* post_loss_decision step, by the amount_due of the loss rejected, and is
\* unchanged by every other operation, save_policy included.
C12_PendingFrame ==
    [][\A pid \in DOMAIN policies :
          pid \in DOMAIN policies' /\ PendingFrame(pid)]_vars

\* C12 amended: the same for every step but save_policy, which replaces the
\* stored policy, pending_balance included, by the caller's.
C12_PendingFrameExceptSave ==
    [][ret'.op # "save_policy"
       => \A pid \in DOMAIN policies :
             pid \in DOMAIN policies' /\ PendingFrame(pid)]_vars

\* p1 had the losses l1 and l2 computed (pending -100) and l2 rejected
C12_Witness ==
    /\ ret.op = "post_loss_decision"
    /\ ret.id = "l2"
    /\ "p1" \in DOMAIN policies
    /\ policies["p1"].pending_balance = 800
    /\ ComputedLossIds(policies["p1"].computed_losses) = <<"l1">>
    /\ ComputedLossIds(policies["p1"].rejected_losses) = <<"l2">>

(***************************************************************************)
(* C13, C14                                                                *)
(***************************************************************************)
\* C13: a post_loss_decision naming a stored policy, called by an account that
\* is not the policy's authorized_administrator, ends in the panic "Not
\* Authorized to Confirm loss for this client." and leaves the policies, the
\* issuers' obligation index and the Loss-Identity Index as they were.
C13_DecisionNeedsAdministrator ==
    [][\A caller \in Accounts, decision \in DecisionInputs, now \in NowInputs :
          (/\ ret'.op = "post_loss_decision"
           /\ ret'.policy_id = decision.identity.policy_id
           /\ ret'.id = decision.identity.id
           /\ decision.identity.policy_id \in DOMAIN policies
           /\ policies[decision.identity.policy_id].authorized_administrator # caller
           /\ PostLossDecisionStep(caller, decision, now))
          => /\ ret'.status = "Not Authorized to Confirm loss for this client."
             /\ UNCHANGED <<policies, obligations, loss_identities>>]_vars

\* a stranger's decision on a loss the policy holds as computed was refused
C13_Witness ==
    /\ ret.op = "post_loss_decision"
    /\ ret.status = "Not Authorized to Confirm loss for this client."
    /\ ret.policy_id \in DOMAIN policies
    /\ ret.id \in Range(ComputedLossIds(policies[ret.policy_id].computed_losses))

\* C14: a post_payment_made by an account that is not in policy_managers at the
\* time of the call ends in the panic POLICY_MANAGER_RESTRICTED and leaves the
\* policies and the obligation index as they were; a call that gets further was
\* made by an account in the list.
C14_PaymentNeedsActivator ==
    [][\A caller \in Accounts, resolve \in ResolveInputs, now \in NowInputs :
          (/\ ret'.op = "post_payment_made"
           /\ ret'.policy_id = resolve.identity.policy_id
           /\ ret'.id = resolve.identity.id
           /\ caller \notin Range(policy_managers)
           /\ PostPaymentMadeStep(caller, resolve, now))
          => /\ ret'.status = "POLICY_MANAGER_RESTRICTED"
             /\ UNCHANGED <<policies, obligations>>]_vars

\* a payment of an open obligation was refused, the activator list being empty
\* again after a removal
C14_Witness ==
    /\ ret.op = "post_payment_made"
    /\ ret.status = "POLICY_MANAGER_RESTRICTED"
    /\ policy_managers = <<>>
    /\ ret.policy_id \in DOMAIN policies
    /\ ret.id \in Range(ObligationIds(policies[ret.policy_id].obligations))
    /\ policies[ret.policy_id].payments # <<>>

(***************************************************************************)
(* C15                                                                     *)
(***************************************************************************)
\* C15: a save_policy by an account that is not in policy_managers creates no
\* policy and overwrites none.
C15_SaveNeedsActivator ==
    [][\A caller \in Accounts, policy \in PolicyInputs :
          (/\ ret'.op = "save_policy"
           /\ caller \notin Range(policy_managers)
           /\ SavePolicyStep(caller, policy))
          => policies' = policies]_vars

(***************************************************************************)
(* C16                                                                     *)
(***************************************************************************)
\* C16: a compute_loss_callback step changes the computed_losses or the
\* pending_balance of a policy only if the claims service the request went to
\* (the claims_manager of the last submitted context) is the policy's
\* claims_manager.
C16_LossFromPolicysClaimsManager ==
    [][\A request \in BagToSet(promises), result \in ResultInputs :
          (/\ ret'.op = "compute_loss_callback"
           /\ ComputeLossCallbackStep(request, result))
          => \A pid \in DOMAIN policies :
                (\/ policies'[pid].computed_losses # policies[pid].computed_losses
                 \/ policies'[pid].pending_balance # policies[pid].pending_balance)
                => policies[pid].claims_manager = request.to]_vars

(***************************************************************************)
(* C17                                                                     *)
(***************************************************************************)
\* C17: a compute_loss_callback whose promise result is Failed, or Successful
\* with a payload that does not deserialize, panics (ERR_CALL_FAILED,
\* ERR_WRONG_VAL_RECEIVED), leaves the policies, the obligation index and the
\* Loss-Identity Index as they were, and puts no new request in flight.
C17_FailedCallbackChangesNothing ==
    [][\A request \in BagToSet(promises), result \in ResultInputs :
          (/\ ret'.op = "compute_loss_callback"
           /\ result.kind # "Successful"
           /\ ComputeLossCallbackStep(request, result))
          => /\ ret'.status = IF result.kind = "Failed" THEN "ERR_CALL_FAILED"
                              ELSE "ERR_WRONG_VAL_RECEIVED"
             /\ UNCHANGED <<policies, obligations, loss_identities>>
             /\ promises' = promises (-) SetToBag({request})]_vars

\* a malformed result arrived for a ledger that holds a policy with a loss
C17_Witness ==
    /\ ret.op = "compute_loss_callback"
    /\ ret.status = "ERR_WRONG_VAL_RECEIVED"
    /\ "p1" \in DOMAIN policies
    /\ policies["p1"].computed_losses # <<>>
    /\ promises = EmptyBag

(***************************************************************************)
(* C18                                                                     *)
(***************************************************************************)
\* the decision names a policy that is not stored, or a loss that is not in the
\* stored policy's computed_losses
DecisionLookupFails(decision) ==
    LET pid == decision.identity.policy_id
    IN \/ pid \notin DOMAIN policies
       \/ decision.identity.id
            \notin Range(ComputedLossIds(policies[pid].computed_losses))

\* C18: a post_loss_decision whose policy is not stored, or whose identity is
\* not in the policy's computed_losses, ends in a panic (for the policy's
\* administrator: COMPUTED_LOSS_NOT_FOUND_IN_POLICY) and leaves the policies,
\* the issuers' obligation index and the Loss-Identity Index as they were.
C18_FailedDecisionLookupChangesNothing ==
    [][\A caller \in Accounts, decision \in DecisionInputs, now \in NowInputs :
          (/\ ret'.op = "post_loss_decision"
           /\ ret'.policy_id = decision.identity.policy_id
           /\ ret'.id = decision.identity.id
           /\ DecisionLookupFails(decision)
           /\ PostLossDecisionStep(caller, decision, now))
          => /\ ret'.status # "ok"
             /\ (/\ decision.identity.policy_id \in DOMAIN policies
                 /\ caller = policies[decision.identity.policy_id].authorized_administrator)
                => ret'.status = "COMPUTED_LOSS_NOT_FOUND_IN_POLICY"
             /\ UNCHANGED <<policies, obligations, loss_identities>>]_vars

\* the administrator decided on l2 while the policy held only l1 as computed
C18_Witness ==
    /\ ret.op = "post_loss_decision"
    /\ ret.status = "COMPUTED_LOSS_NOT_FOUND_IN_POLICY"
    /\ ret.policy_id \in DOMAIN policies
    /\ policies[ret.policy_id].computed_losses # <<>>
    /\ ret.id \notin Range(ComputedLossIds(policies[ret.policy_id].computed_losses))

(***************************************************************************)
(* C19                                                                     *)
(***************************************************************************)
\* C19: a post_payment_made that fails (policy not stored, obligation not in the
\* policy, obligation or issuer not in the index) leaves the policies, with
\* their balance, payments and obligations, and the obligation index as they
\* were.
C19_FailedPaymentChangesNothing ==
    [][\A caller \in Accounts, resolve \in ResolveInputs, now \in NowInputs :
          (/\ ret'.op = "post_payment_made"
           /\ ret'.status # "ok"
           /\ PostPaymentMadeStep(caller, resolve, now))
          => UNCHANGED <<policies, obligations>>]_vars

(***************************************************************************)
(* C20                                                                     *)
(***************************************************************************)
\* the identity is not in the Loss-Identity Index entry of its client
NotInLossIdentityIndex(identity) ==
    \/ identity.client_id \notin DOMAIN loss_identities
    \/ identity.id \notin Range(IdentityIds(loss_identities[identity.client_id]))

\* the stored policy after the step has the decided loss moved out of
\* computed_losses: to obligations on accept, to rejected_losses with its
\* amount_due credited to pending_balance on reject
LeftMutated(decision) ==
    LET pid == decision.identity.policy_id
        before == policies[pid]
        after == policies'[pid]
        idx == Position(ComputedLossIds(before.computed_losses), decision.identity.id)
        c == before.computed_losses[idx]
    IN /\ after.computed_losses = Remove(before.computed_losses, idx)
       /\ IF decision.accept
          THEN /\ Len(after.obligations) = Len(before.obligations) + 1
               /\ after.obligations[Len(after.obligations)].computed_loss = c
               /\ after.pending_balance = before.pending_balance
          ELSE /\ after.rejected_losses = Append(before.rejected_losses, c)
               /\ after.pending_balance = before.pending_balance + c.amount_due

\* C20: a post_loss_decision by the policy's administrator on a loss the policy
\* holds as computed, whose identity is not in the client's Loss-Identity
\* Index, fails with LOSS_IDENTITY_NOT_FOUND and leaves the stored policy
\* mutated (accept: loss moved to obligations; reject: loss moved to
\* rejected_losses and pending_balance credited).
C20_IndexFailureLeavesPolicyMutated ==
    [][\A caller \in Accounts, decision \in DecisionInputs, now \in NowInputs :
          (/\ ret'.op = "post_loss_decision"
           /\ ret'.policy_id = decision.identity.policy_id
           /\ ret'.id = decision.identity.id
           /\ ~ DecisionLookupFails(decision)
           /\ caller = policies[decision.identity.policy_id].authorized_administrator
           /\ NotInLossIdentityIndex(decision.identity)
           /\ PostLossDecisionStep(caller, decision, now))
          => /\ ret'.status = "LOSS_IDENTITY_NOT_FOUND"
             /\ LeftMutated(decision)]_vars

(***************************************************************************)
(* C21                                                                     *)
(***************************************************************************)
\* C21: a claim_master_admin made while no candidate is pending, or by an
\* account other than the pending candidate (the current master admin
\* included), panics and leaves master_admin and new_master_admin as they
\* were; a claim that succeeds was made by the pending candidate.
C21_ClaimNeedsPendingCandidate ==
    [][\A caller \in Accounts :
          (/\ ret'.op = "claim_master_admin"
           /\ ClaimMasterAdminStep(caller))
          => IF new_master_admin = Some(caller)
             THEN ret'.status = "ok"
             ELSE /\ ret'.status = IF new_master_admin = None
                                   THEN "No abdication process started"
                                   ELSE "you are not the new master admin"
                  /\ UNCHANGED <<master_admin, new_master_admin>>]_vars

\* a claim was refused while a candidate was pending
C21_Witness ==
    /\ ret.op = "claim_master_admin"
    /\ ret.status = "you are not the new master admin"
    /\ new_master_admin # None
    /\ master_admin = Deployer


(***************************************************************************)
(* C22                                                                     *)
(***************************************************************************)
\* the four operations guarded by the master-admin role refuse `caller` in
\* the state (admin, pending, managers) and would change nothing
RejectedByAdminOperations(admin, pending, managers, caller) ==
    /\ \A candidate \in CandidateInputs :
          LET r == suspend_master_admin(admin, pending, caller, candidate)
          IN r.status # "ok" /\ r.master_admin = admin
                             /\ r.new_master_admin = pending
    /\ LET r == cancel_master_admin_abdication(admin, pending, caller)
       IN r.status # "ok" /\ r.master_admin = admin /\ r.new_master_admin = pending
    /\ \A policy_activator \in ActivatorInputs :
          /\ LET r == add_policy_activator(managers, admin, caller, policy_activator)
             IN r.status # "ok" /\ r.policy_managers = managers
          /\ LET r == remove_policy_activator(managers, admin, caller, policy_activator)
             IN r.status # "ok" /\ r.policy_managers = managers

\* C22 as stated: master_admin changes only in a successful
\* claim_master_admin step and becomes the pending candidate, and after every
\* successful claim the account that was master admin before it is refused
\* by suspend_master_admin, cancel_master_admin_abdication,
\* add_policy_activator and remove_policy_activator.  A master admin may name
\* itself as the candidate and claim: it is then still accepted.
C22_PreviousAdminRejected ==
    [][/\ master_admin' # master_admin
          => /\ ret'.op = "claim_master_admin"
             /\ ret'.status = "ok"
             /\ new_master_admin = Some(master_admin')
       /\ (ret'.op = "claim_master_admin" /\ ret'.status = "ok")
          => RejectedByAdminOperations(master_admin', new_master_admin',
                                       policy_managers', master_admin)]_vars

\* C22, for a claim that hands the role to another account:
\* master_admin changes only in a successful claim_master_admin step and
\* becomes the pending candidate; a candidate becomes pending only by a
\* successful suspend_master_admin of the then-current master admin naming
\* it, and a successful cancel leaves none pending, so the claimed value is
\* the account most recently named and not cancelled since.  After a
\* successful claim every account other than the new master admin (the
\* previous master admin whenever the role changed hands) is refused by
\* suspend_master_admin, cancel_master_admin_abdication, add_policy_activator
\* and remove_policy_activator, and a refused call of those four changes the
\* admin record and the activator list in nothing.
C22_HandoverOnlyByClaim ==
    [][/\ master_admin' # master_admin
          => /\ ret'.op = "claim_master_admin"
             /\ ret'.status = "ok"
             /\ new_master_admin = Some(master_admin')
             /\ new_master_admin' = None
       /\ (new_master_admin' # new_master_admin /\ new_master_admin' # None)
          => /\ ret'.op = "suspend_master_admin"
             /\ ret'.status = "ok"
             /\ \E candidate \in CandidateInputs :
                   /\ SuspendMasterAdminStep(master_admin, candidate)
                   /\ new_master_admin' = Some(candidate)
       /\ (ret'.op = "cancel_master_admin_abdication" /\ ret'.status = "ok")
          => new_master_admin' = None
       /\ (ret'.op = "claim_master_admin" /\ ret'.status = "ok")
          => \A previous \in Accounts \ {master_admin'} :
                RejectedByAdminOperations(master_admin', new_master_admin',
                                          policy_managers', previous)
       /\ \A caller \in Accounts \ {master_admin} :
             (/\ ret'.op \in {"suspend_master_admin",
                              "cancel_master_admin_abdication",
                              "add_policy_activator", "remove_policy_activator"}
              /\ \/ \E candidate \in CandidateInputs :
                       SuspendMasterAdminStep(caller, candidate)
                 \/ CancelMasterAdminAbdicationStep(caller)
                 \/ \E policy_activator \in ActivatorInputs :
                       \/ AddPolicyActivatorStep(caller, policy_activator)
                       \/ RemovePolicyActivatorStep(caller, policy_activator))
             => /\ ret'.status # "ok"
                /\ UNCHANGED <<master_admin, new_master_admin, policy_managers>>]_vars

\* the role has changed hands and a later suspend_master_admin was refused
C22_Witness ==
    /\ master_admin # Deployer
    /\ ret.op = "suspend_master_admin"
    /\ ret.status = "only master admin can start abdication process."


(***************************************************************************)
(* C23                                                                     *)
(***************************************************************************)
SuccessionOperations ==
    {"suspend_master_admin", "cancel_master_admin_abdication", "claim_master_admin"}

\* C23: no candidate is pending initially; new_master_admin is set only by a
\* successful suspend_master_admin (to the account named) and cleared only
\* by a successful claim_master_admin or cancel_master_admin_abdication; no
\* other operation and no refused call touches it, so in every state, however
\* many ledger operations came in between, a claim by the pending candidate
\* succeeds (there is no timeout); and right after a successful cancel, or a
\* successful suspend naming someone else, a claim by the earlier candidate
\* fails.
C23_PendingFromSuspendToClaimOrCancel ==
    /\ new_master_admin = None
    /\ [](new_master_admin # None
          => claim_master_admin(master_admin, new_master_admin,
                                new_master_admin[1]).status = "ok")
    /\ [][/\ (ret'.op \notin SuccessionOperations \/ ret'.status # "ok")
             => UNCHANGED new_master_admin
          /\ (ret'.op = "suspend_master_admin" /\ ret'.status = "ok")
             => \E candidate \in CandidateInputs :
                   /\ SuspendMasterAdminStep(master_admin, candidate)
                   /\ new_master_admin' = Some(candidate)
          /\ (/\ ret'.op \in {"cancel_master_admin_abdication", "claim_master_admin"}
              /\ ret'.status = "ok")
             => new_master_admin' = None
          /\ (/\ new_master_admin # None
              /\ new_master_admin' # new_master_admin
              /\ ret'.op \in {"cancel_master_admin_abdication", "suspend_master_admin"})
             => claim_master_admin(master_admin', new_master_admin',
                                   new_master_admin[1]).status # "ok"]_vars

\* a ledger operation ran while a candidate was pending
C23_Witness ==
    /\ new_master_admin # None
    /\ ret.op = "compute_loss"
    /\ ret.status = "ok"
    /\ policies # EmptyMap


(***************************************************************************)
(* C24                                                                     *)
(***************************************************************************)
\* C24: save_policy is a last-write-wins upsert keyed by policy_id: after it
\* get_policy returns the saved policy, saving the same policy again changes
\* nothing, saving any other policy with the same id next leaves exactly
\* that second one retrievable, the policies stored under other ids are
\* unchanged, and the obligation index, the Loss-Identity Index and the admin
\* record are untouched.
C24_SavePolicyIsUpsert ==
    [][ret'.op = "save_policy"
       => \A policy \in {p \in PolicyInputs : p.policy_id = ret'.policy_id} :
             (/\ policy.policy_id \in DOMAIN policies'
              /\ policies'[policy.policy_id] = policy
              /\ \E caller \in Accounts : SavePolicyStep(caller, policy))
             => /\ get_policy(policies', policy.policy_id) = Some(policy)
                /\ save_policy(policies', policy) = policies'
                /\ \A second \in PolicyInputs :
                      second.policy_id = policy.policy_id
                      => LET twice == save_policy(policies', second)
                         IN /\ get_policy(twice, policy.policy_id) = Some(second)
                            /\ DOMAIN twice = DOMAIN policies'
                            /\ \A other \in PolicyIds \ {policy.policy_id} :
                                  get_policy(twice, other) = get_policy(policies, other)
                /\ \A other \in PolicyIds \ {policy.policy_id} :
                      get_policy(policies', other) = get_policy(policies, other)
                /\ UNCHANGED <<obligations, loss_identities, master_admin,
                               new_master_admin, policy_managers>>]_vars

\* a policy was saved under p1 while the policy stored under p2 held a
\* computed loss
C24_Witness ==
    /\ ret.op = "save_policy"
    /\ ret.policy_id = "p1"
    /\ DOMAIN policies = {"p1", "p2"}
    /\ policies["p1"].obligations # <<>>
    /\ policies["p2"].computed_losses # <<>>


(***************************************************************************)
(* C25                                                                     *)
(***************************************************************************)
\* the request compute_loss dispatches for a non-empty context list: to the
\* claims service of the last context, carrying the whole list
RequestOf(loss_contexts) ==
    [to |-> loss_contexts[Len(loss_contexts)].claims_manager,
     payload |-> loss_contexts]

\* everything the contract stores
LedgerState ==
    <<policies, obligations, loss_identities, policy_managers,
      master_admin, new_master_admin>>

\* C25 as stated: every compute_loss invocation leaves the ledger state
\* unchanged and dispatches exactly one remote request, addressed to the
\* claims service of the last context and carrying the whole list.  An
\* invocation with an empty list panics at last().unwrap() and dispatches
\* none.
C25_OneRequestPerInvocation ==
    [][\A loss_contexts \in ContextListInputs :
          (ret'.op = "compute_loss" /\ ComputeLossStep(loss_contexts))
          => /\ UNCHANGED LedgerState
             /\ BagCardinality(promises') = BagCardinality(promises) + 1
             /\ loss_contexts # <<>>
                => promises' = promises (+) SetToBag({RequestOf(loss_contexts)})]_vars

\* C25, for a non-empty context list: compute_loss leaves the ledger state
\* unchanged and adds exactly one remote request, addressed to the claims
\* service of the last context and carrying the whole list; with an empty list
\* it panics and dispatches nothing; and the policies change only in
\* save_policy or in the later steps (the callback among them), never in the
\* compute_loss step.
C25_ComputeLossOnlyDispatches ==
    [][/\ \A loss_contexts \in ContextListInputs :
             (ret'.op = "compute_loss" /\ ComputeLossStep(loss_contexts))
             => /\ UNCHANGED LedgerState
                /\ IF loss_contexts = <<>>
                   THEN /\ ret'.status = "unwrap on None"
                        /\ promises' = promises
                   ELSE /\ ret'.status = "ok"
                        /\ promises' = promises (+) SetToBag({RequestOf(loss_contexts)})
                        /\ BagCardinality(promises') = BagCardinality(promises) + 1
       /\ (policies' # policies /\ ret'.op # "save_policy")
          => ret'.op \in {"compute_loss_callback", "post_loss_decision",
                          "post_payment_made"}]_vars

\* a request addressed to the last context's claims service is outstanding
\* and the list's first context names another claims service
C25_Witness ==
    /\ ret.op = "compute_loss"
    /\ ret.status = "ok"
    /\ policies # EmptyMap
    /\ \E request \in BagToSet(promises) :
          /\ Len(request.payload) = 2
          /\ request.to = request.payload[2].claims_manager
          /\ request.to # request.payload[1].claims_manager


(***************************************************************************)
(* C26                                                                     *)
(***************************************************************************)
IsPrefix(s, t) == Len(s) <= Len(t) /\ SubSeq(t, 1, Len(s)) = s

\* the step keeps the policy's payments and rejected_losses as they were, in
\* order and content, possibly with new entries appended
TerminalKept(pid) ==
    /\ pid \in DOMAIN policies'
    /\ IsPrefix(policies[pid].payments, policies'[pid].payments)
    /\ IsPrefix(policies[pid].rejected_losses, policies'[pid].rejected_losses)

TerminalIds(policy) ==
    Range(PaymentIds(policy.payments)) \cup Range(ComputedLossIds(policy.rejected_losses))

OpenIds(policy) ==
    Range(ObligationIds(policy.obligations))
    \cup Range(ComputedLossIds(policy.computed_losses))

\* a paid or rejected loss of the policy is back in computed_losses or
\* obligations after the step
ReEntry(pid) ==
    \E id \in TerminalIds(policies[pid]) :
        /\ id \notin OpenIds(policies[pid])
        /\ id \in OpenIds(policies'[pid])

\* C26 as stated: in every step every stored policy keeps its payments and
\* its rejected_losses (same entries, same order, same content) and no paid
\* or rejected loss re-enters computed_losses or obligations.
C26_PaidAndRejectedTerminal ==
    [][\A pid \in DOMAIN policies :
          TerminalKept(pid) /\ (pid \in DOMAIN policies' => ~ ReEntry(pid))]_vars

\* C26, outside save_policy and re-delivery: in every step other than a
\* save_policy of the same policy_id (which replaces the stored policy and
\* its lists with the caller's) every stored policy keeps its payments and its
\* rejected_losses, and a paid or rejected loss re-enters computed_losses only
\* when a callback delivers its id again, and obligations never.
C26_TerminalExceptSaveAndRedelivery ==
    [][\A pid \in DOMAIN policies :
          \/ ret'.op = "save_policy" /\ ret'.policy_id = pid
          \/ /\ TerminalKept(pid)
             /\ ReEntry(pid)
                => /\ ret'.op = "compute_loss_callback"
                   /\ \E request \in BagToSet(promises), result \in ResultInputs :
                         /\ DuplicateDelivery(result)
                         /\ ComputeLossCallbackStep(request, result)
                   /\ Range(ObligationIds(policies'[pid].obligations))
                      = Range(ObligationIds(policies[pid].obligations))]_vars

\* a policy holds a payment and a rejected loss, and a payment was the last
\* operation
C26_Witness ==
    /\ ret.op = "post_payment_made"
    /\ "p1" \in DOMAIN policies
    /\ policies["p1"].payments # <<>>
    /\ policies["p1"].rejected_losses # <<>>


(***************************************************************************)
(* C27                                                                     *)
(***************************************************************************)
\* the four loss lists stored under pid; empty when no policy is stored
ListsOf(pol, pid) ==
    IF pid \in DOMAIN pol
    THEN [payments |-> pol[pid].payments, obligations |-> pol[pid].obligations,
          rejected_losses |-> pol[pid].rejected_losses,
          computed_losses |-> pol[pid].computed_losses]
    ELSE [payments |-> <<>>, obligations |-> <<>>,
          rejected_losses |-> <<>>, computed_losses |-> <<>>]

\* the four moves of the lifecycle, as changes of the lists of one policy
EntersComputed(before, after) ==
    /\ ret'.op = "compute_loss_callback"
    /\ IsPrefix(before.computed_losses, after.computed_losses)
    /\ after.obligations = before.obligations
    /\ after.rejected_losses = before.rejected_losses
    /\ after.payments = before.payments

MovesToObligations(before, after) ==
    /\ ret'.op = "post_loss_decision"
    /\ \E i \in 1..Len(before.computed_losses), now \in Times :
          /\ before.computed_losses[i].identity.id = ret'.id
          /\ after.computed_losses = Remove(before.computed_losses, i)
          /\ after.obligations
             = Append(before.obligations,
                      [computed_loss |-> before.computed_losses[i],
                       contract_update_time |-> now])
    /\ after.rejected_losses = before.rejected_losses
    /\ after.payments = before.payments

MovesToRejected(before, after) ==
    /\ ret'.op = "post_loss_decision"
    /\ \E i \in 1..Len(before.computed_losses) :
          /\ before.computed_losses[i].identity.id = ret'.id
          /\ after.computed_losses = Remove(before.computed_losses, i)
          /\ after.rejected_losses
             = Append(before.rejected_losses, before.computed_losses[i])
    /\ after.obligations = before.obligations
    /\ after.payments = before.payments

MovesToPayments(before, after) ==
    /\ ret'.op = "post_payment_made"
    /\ \E i \in 1..Len(before.obligations) :
          /\ before.obligations[i].computed_loss.identity.id = ret'.id
          /\ after.obligations = Remove(before.obligations, i)
          /\ Len(after.payments) = Len(before.payments) + 1
          /\ IsPrefix(before.payments, after.payments)
          /\ after.payments[Len(after.payments)].obligation = before.obligations[i]
    /\ after.computed_losses = before.computed_losses
    /\ after.rejected_losses = before.rejected_losses

LifecycleMove(pid) ==
    LET before == ListsOf(policies, pid)
        after == ListsOf(policies', pid)
    IN \/ after = before
       \/ EntersComputed(before, after)
       \/ MovesToObligations(before, after)
       \/ MovesToRejected(before, after)
       \/ MovesToPayments(before, after)

\* C27 as stated: the loss lists of a policy change only by the four moves
\* of the lifecycle: a callback appends to computed_losses, an accept moves a
\* loss from computed_losses to obligations, a reject moves one from
\* computed_losses to rejected_losses, a payment moves an obligation to
\* payments.
C27_LifecycleOrdering ==
    [][\A pid \in PolicyIds : LifecycleMove(pid)]_vars

\* C27, outside save_policy: in every step other than a save_policy of the
\* same policy_id, which stores the caller's lists as given, the loss lists
\* of a policy change only by the four moves of the lifecycle.
C27_LifecycleOrderingExceptSave ==
    [][\A pid \in PolicyIds :
          \/ ret'.op = "save_policy" /\ ret'.policy_id = pid
          \/ LifecycleMove(pid)]_vars

\* a loss was rejected out of computed_losses in a policy that also holds a
\* payment made out of its obligations
C27_Witness ==
    /\ ret.op = "post_loss_decision"
    /\ ret.policy_id = "p1"
    /\ "p1" \in DOMAIN policies
    /\ policies["p1"].payments # <<>>
    /\ policies["p1"].rejected_losses # <<>>
    /\ policies["p1"].computed_losses = <<>>


(***************************************************************************)
(* C28                                                                     *)
(***************************************************************************)
\* pending_balance is the balance net of the losses in computed_losses
NetOfComputed(policy) ==
    policy.pending_balance
    = policy.balance - SumSeq(AmountsOf(policy.computed_losses))

\* a policy as the activation path saves it
SavedFresh(policy) ==
    /\ policy.pending_balance = policy.balance
    /\ policy.payments = <<>>
    /\ policy.obligations = <<>>
    /\ policy.rejected_losses = <<>>
    /\ policy.computed_losses = <<>>

\* C28: a policy saved with pending_balance = balance and empty loss lists
\* has pending_balance = balance - sum of amount_due over computed_losses and
\* no obligation, and every callback, decision and payment step keeps both
\* for every stored policy that has them; so the equation holds in every
\* state such a policy reaches by callbacks, decisions and payments.
C28_PendingIsBalanceNetOfComputed ==
    [][\A pid \in DOMAIN policies' :
          IF ret'.op = "save_policy" /\ ret'.policy_id = pid
          THEN SavedFresh(policies'[pid])
               => /\ NetOfComputed(policies'[pid])
                  /\ policies'[pid].obligations = <<>>
          ELSE (/\ ret'.op \in {"compute_loss_callback", "post_loss_decision",
                                "post_payment_made"}
                /\ pid \in DOMAIN policies
                /\ NetOfComputed(policies[pid])
                /\ policies[pid].obligations = <<>>)
               => /\ NetOfComputed(policies'[pid])
                  /\ policies'[pid].obligations = <<>>
                  /\ policies'[pid].balance = policies[pid].balance]_vars

\* a policy saved fresh has had a loss rejected and holds another computed
\* loss, its pending_balance below its balance
C28_Witness ==
    /\ ret.op = "post_loss_decision"
    /\ "p1" \in DOMAIN policies
    /\ policies["p1"].obligations = <<>>
    /\ policies["p1"].payments = <<>>
    /\ policies["p1"].rejected_losses # <<>>
    /\ policies["p1"].computed_losses # <<>>
    /\ policies["p1"].pending_balance < policies["p1"].balance


(***************************************************************************)
(* C29                                                                     *)
(***************************************************************************)
\* now + days * one day, as a number of nanoseconds of any size
DeadlineAfter(now, days) == TimeAdd(now, DaysInNanoseconds(days))

\* issue_quote by `issuer` in the state after the step stores the quote under
\* its id with accept_deadline = now + days * one day, whatever the quote,
\* the time and the build
IssuesWithDeadline(issuer, days) ==
    \A quote \in QuoteInputs, now \in TimestampInputs, overflow_checks \in BOOLEAN :
        LET r == issue_quote(undecided_quotes', quote_issuers', standard_days_valid',
                             issuer, quote, now, overflow_checks)
        IN /\ r.status = "ok"
           /\ get_quote(r.undecided_quotes, quote.id)
              = Some([quote |-> quote, accept_deadline |-> DeadlineAfter(now, days)])

\* C29: an issue_quote by a caller that is not in the quote-issuer whitelist
\* panics with "Not permitted." and leaves undecided_quotes unchanged, and
\* right after the owner's successful add_issuer(a, days) an issue_quote by a
\* succeeds and stores the quote under its id with
\* accept_deadline = now + days * one day.
C29_IssueQuoteNeedsWhitelist ==
    [][/\ \A caller \in Accounts :
             (/\ ret'.op = "issue_quote"
              /\ ~ is_quote_issuer(quote_issuers, caller)
              /\ \E quote \in QuoteInputs, now \in TimestampInputs,
                    overflow_checks \in BOOLEAN :
                    IssueQuoteStep(caller, quote, now, overflow_checks))
             => /\ ret'.status = "Not permitted."
                /\ UNCHANGED undecided_quotes
       /\ \A a \in IssuerInputs, days \in DaysInputs :
             (/\ ret'.op = "add_issuer"
              /\ ret'.status = "ok"
              /\ AddIssuerStep(owner, a, days))
             => IssuesWithDeadline(a, days)]_vars


(***************************************************************************)
(* C30                                                                     *)
(***************************************************************************)
\* the result names a policy that is not stored
NamesMissingPolicy(result) ==
    \E i \in 1..Len(result.losses) :
        result.losses[i].identity.policy_id \notin DOMAIN policies

\* C30: a successful callback whose result list holds a loss for a policy_id
\* that is not stored ends "ok", stores no policy under a new id, appends to
\* every stored policy exactly the losses of the list that name it (debiting
\* their amount_due from pending_balance), in the order of the list, and
\* leaves the stored policies the list does not name unchanged.
C30_MissingPolicySkipped ==
    [][\A result \in ResultInputs :
          (/\ ret'.op = "compute_loss_callback"
           /\ result.kind = "Successful"
           /\ NamesMissingPolicy(result)
           /\ \E request \in BagToSet(promises) :
                 ComputeLossCallbackStep(request, result))
          => /\ ret'.status = "ok"
             /\ DOMAIN policies' = DOMAIN policies
             /\ \A pid \in DOMAIN policies :
                   LET delivered == DeliveredTo(result.losses, pid)
                   IN /\ policies'[pid]
                         = [policies[pid] EXCEPT
                              !.computed_losses = @ \o delivered,
                              !.pending_balance = @ - SumSeq(AmountsOf(delivered))]
                      /\ delivered = <<>> => policies'[pid] = policies[pid]]_vars

\* after a successful callback policy p1 holds a computed loss and no policy
\* is stored under p2
C30_Witness ==
    /\ ret.op = "compute_loss_callback"
    /\ ret.status = "ok"
    /\ DOMAIN policies = {"p1"}
    /\ Len(policies["p1"].computed_losses) = 1
    /\ policies["p1"].obligations = <<>>
    /\ policies["p1"].rejected_losses = <<>>


(***************************************************************************)
(* C31                                                                     *)
(***************************************************************************)
SuccessfulResults == {r \in ResultInputs : r.kind = "Successful"}

\* the result lists of at most one loss
SingleResults == {r \in SuccessfulResults : Len(r.losses) <= 1}

\* the store after the callback has applied `result`
AfterCallback(pol, result) == compute_loss_callback(pol, result).policies

DeliveredSum(result, pid) == SumSeq(AmountsOf(DeliveredTo(result.losses, pid)))

\* the two lists hold the same losses, each as many times
SameLosses(a, b) ==
    \A c \in Range(a) \cup Range(b) : Count(a, c) = Count(b, c)

\* the two stores differ at most in the order of the computed losses
SameUpToOrder(a, b) ==
    /\ DOMAIN a = DOMAIN b
    /\ \A pid \in DOMAIN a :
          /\ SameLosses(a[pid].computed_losses, b[pid].computed_losses)
          /\ [a[pid] EXCEPT !.computed_losses = <<>>]
             = [b[pid] EXCEPT !.computed_losses = <<>>]

\* the decisions and payments that act on a record the store holds now, made
\* by a caller the policy or the activator list admits
InterleavedOperations ==
    {[kind |-> "decision", caller |-> caller, decision |-> d, now |-> now] :
        caller \in Accounts, d \in DecisionInputs, now \in NowInputs}
    \cup {[kind |-> "payment", caller |-> caller, resolve |-> r, now |-> now] :
             caller \in Accounts, r \in ResolveInputs, now \in NowInputs}

ActsOnStoredRecord(m) ==
    IF m.kind = "decision"
    THEN /\ m.decision.identity.policy_id \in DOMAIN policies
         /\ is_authorized_administrator(policies[m.decision.identity.policy_id], m.caller)
         /\ Position(ComputedLossIds(
                policies[m.decision.identity.policy_id].computed_losses),
                m.decision.identity.id) # 0
    ELSE /\ m.resolve.identity.policy_id \in DOMAIN policies
         /\ is_policy_manager(policy_managers, m.caller)
         /\ Position(ObligationIds(
                policies[m.resolve.identity.policy_id].obligations),
                m.resolve.identity.id) # 0

\* the store after the decision or payment m
AfterOperation(pol, m) ==
    IF m.kind = "decision"
    THEN post_loss_decision(pol, obligations, loss_identities,
                            m.caller, m.decision, m.now).policies
    ELSE post_payment_made(pol, obligations, policy_managers,
                           m.caller, m.resolve, m.now).policies

\* C31: in every state that a compute_loss leaves with two or more requests
\* outstanding, after whatever callbacks, decisions and payments, whatever
\* result lists the two callbacks deliver, the two delivery orders end in
\* stores that differ at most in the order of computed_losses: every stored
\* policy has pending_balance =
\* prior value - sum of all delivered amount_due and holds the same losses;
\* and a decision or payment on a record already stored gives the same
\* outcome whether it runs before, between or after two callbacks that
\* deliver at most one loss each.
C31_CallbackOrderIrrelevant ==
    (/\ ret.op = "compute_loss"
     /\ ret.status = "ok"
     /\ BagCardinality(promises) >= 2)
    => LET stored == {x \in InterleavedOperations : ActsOnStoredRecord(x)}
           decided == [m \in stored |-> AfterOperation(policies, m)]
       IN \A r1 \in SuccessfulResults :
             LET one == AfterCallback(policies, r1)
             IN \A r2 \in SuccessfulResults :
                   LET first == AfterCallback(one, r2)
                       second == AfterCallback(AfterCallback(policies, r2), r1)
                   IN /\ SameUpToOrder(first, second)
                      /\ \A pid \in DOMAIN policies :
                            /\ first[pid].pending_balance
                               = policies[pid].pending_balance
                                 - DeliveredSum(r1, pid) - DeliveredSum(r2, pid)
                            /\ SameLosses(first[pid].computed_losses,
                                          policies[pid].computed_losses
                                          \o DeliveredTo(r1.losses, pid)
                                          \o DeliveredTo(r2.losses, pid))
                      /\ (r1 \in SingleResults /\ r2 \in SingleResults)
                         => \A m \in stored :
                               LET before == AfterCallback(AfterCallback(decided[m], r1), r2)
                                   between == AfterCallback(AfterOperation(one, m), r2)
                                   after == AfterOperation(first, m)
                               IN /\ SameUpToOrder(before, between)
                                  /\ SameUpToOrder(before, after)

\* a second request has been dispatched while the first is outstanding, for
\* a store where a decision and a payment can interleave with the callbacks
C31_Witness ==
    /\ ret.op = "compute_loss"
    /\ ret.status = "ok"
    /\ BagCardinality(promises) = 2
    /\ policy_managers # <<>>
    /\ "p1" \in DOMAIN policies
    /\ policies["p1"].computed_losses # <<>>
    /\ policies["p1"].obligations # <<>>


(***************************************************************************)
(* C32                                                                     *)
(***************************************************************************)
\* the policy after `times` deliveries of the result list
CountedTimes(policy, result, times) ==
    LET delivered == DeliveredTo(result.losses, policy.policy_id)
    IN [policy EXCEPT
          !.computed_losses = IF times = 2 THEN @ \o delivered \o delivered
                              ELSE @ \o delivered,
          !.pending_balance = @ - times * SumSeq(AmountsOf(delivered))]

\* C32: a successful callback appends every delivered loss to its policy's
\* computed_losses and debits its amount_due from pending_balance, whether
\* or not the policy already holds a loss of that id, and the same result
\* list delivered a second time is appended and debited a second time.  A
\* callback runs only by consuming one outstanding request, and a request
\* becomes outstanding only by a compute_loss that succeeded, one per call;
\* so the callbacks applied never outnumber the requests dispatched.
C32_NoDeduplication ==
    [][/\ ret'.op = "compute_loss_callback"
          => /\ BagCardinality(promises) >= 1
             /\ BagCardinality(promises') = BagCardinality(promises) - 1
             /\ \A result \in SuccessfulResults :
                   (\E request \in BagToSet(promises) :
                       ComputeLossCallbackStep(request, result))
                   => /\ ret'.status = "ok"
                      /\ \A pid \in DOMAIN policies :
                            /\ policies'[pid] = CountedTimes(policies[pid], result, 1)
                            /\ AfterCallback(policies', result)[pid]
                               = CountedTimes(policies[pid], result, 2)
       /\ ret'.op # "compute_loss_callback"
          => /\ BagCardinality(promises') >= BagCardinality(promises)
             /\ promises' # promises
                => /\ ret'.op = "compute_loss"
                   /\ ret'.status = "ok"
                   /\ BagCardinality(promises') = BagCardinality(promises) + 1]_vars

\* the same loss has been delivered twice and is counted twice
C32_Witness ==
    /\ ret.op = "compute_loss_callback"
    /\ ret.status = "ok"
    /\ "p1" \in DOMAIN policies
    /\ ComputedLossIds(policies["p1"].computed_losses) = <<"l1", "l1">>
    /\ policies["p1"].pending_balance
       = policies["p1"].balance - 2 * AmountOf("l1")


(***************************************************************************)
(* C33                                                                     *)
(***************************************************************************)
\* the whole identities of the losses a policy holds for decision
ComputedIdentities(policy) ==
    {policy.computed_losses[i].identity : i \in 1..Len(policy.computed_losses)}

\* the whole identities of the obligations a policy holds for payment
ObligationIdentities(policy) ==
    {policy.obligations[i].computed_loss.identity : i \in 1..Len(policy.obligations)}

\* C33: post_loss_decision and post_payment_made move a record only when the
\* whole identity of the request (id, policy_id, client_id, issuer_id) equals
\* the identity of a stored record: a request whose identity is not that of
\* any computed loss (any obligation) of the policy leaves the policies as
\* they were.
C33_WholeIdentityMatched ==
    [][/\ ret'.op = "post_loss_decision"
          => \A decision \in DecisionInputs \cup ForeignDecisionInputs :
                (/\ decision.identity.policy_id \in DOMAIN policies
                 /\ decision.identity
                    \notin ComputedIdentities(policies[decision.identity.policy_id])
                 /\ \E caller \in Accounts, now \in NowInputs :
                       PostLossDecisionStep(caller, decision, now))
                => policies' = policies
       /\ ret'.op = "post_payment_made"
          => \A resolve \in ResolveInputs \cup ForeignResolveInputs :
                (/\ resolve.identity.policy_id \in DOMAIN policies
                 /\ resolve.identity
                    \notin ObligationIdentities(policies[resolve.identity.policy_id])
                 /\ \E caller \in Accounts, now \in NowInputs :
                       PostPaymentMadeStep(caller, resolve, now))
                => policies' = policies]_vars


(***************************************************************************)
(* C34                                                                     *)
(***************************************************************************)
\* the amount_due of the losses awaiting a decision and of the accepted,
\* unpaid obligations of a policy
OutstandingDue(policy) ==
    SumSeq(AmountsOf(policy.computed_losses))
    + SumSeq([i \in 1..Len(policy.obligations) |->
                 policy.obligations[i].computed_loss.amount_due])

\* what pending_balance differs by from the balance net of the outstanding losses
PendingDrift(policy) ==
    policy.pending_balance - (policy.balance - OutstandingDue(policy))

\* C34: a policy saved with pending_balance = balance and empty loss lists
\* has pending_balance = balance - sum of amount_due over computed_losses and
\* obligations, and no callback, decision or payment step changes the
\* difference between the two sides for any stored policy (a callback adds
\* to computed_losses what it debits from pending_balance, a rejection
\* credits what it removes, a payment debits from balance what it removes
\* from obligations); so the equation holds in every state such a policy
\* reaches by callbacks, decisions and payments.
C34_PendingIsBalanceNetOfOutstanding ==
    [][\A pid \in DOMAIN policies' :
          IF ret'.op = "save_policy" /\ ret'.policy_id = pid
          THEN SavedFresh(policies'[pid]) => PendingDrift(policies'[pid]) = 0
          ELSE (/\ ret'.op \in {"compute_loss_callback", "post_loss_decision",
                                "post_payment_made"}
                /\ pid \in DOMAIN policies)
               => PendingDrift(policies'[pid]) = PendingDrift(policies[pid])]_vars

\* a policy saved fresh has had two losses delivered and one of them
\* rejected, a payment has been asked for it, and its pending_balance is its
\* balance net of the loss still awaiting a decision
C34_Witness ==
    /\ ret.op = "post_payment_made"
    /\ ret.policy_id = "p1"
    /\ "p1" \in DOMAIN policies
    /\ policies["p1"].payments = <<>>
    /\ policies["p1"].obligations = <<>>
    /\ Len(policies["p1"].rejected_losses) = 1
    /\ Len(policies["p1"].computed_losses) = 1
    /\ policies["p1"].pending_balance
       = policies["p1"].balance - OutstandingDue(policies["p1"])
    /\ OutstandingDue(policies["p1"]) > 0


(***************************************************************************)
(* C35                                                                     *)
(***************************************************************************)
\* every post_payment_made call by `caller` in the state after the step
\* stops at the activator assert
RejectedByPostPaymentMade(caller) ==
    \A resolve \in ResolveInputs, now \in NowInputs :
        post_payment_made(policies', obligations', policy_managers',
                          caller, resolve, now).status
        = "POLICY_MANAGER_RESTRICTED"

\* C35: after a successful remove_policy_activator(a), whatever
\* add_policy_activator and remove_policy_activator calls came before,
\* post_payment_made rejects a, and it goes on rejecting a until a successful
\* add_policy_activator; a call of either operation by another account than
\* the master admin leaves the activator list as it was.
C35_RevocationEffective ==
    [][/\ (ret'.op = "remove_policy_activator" /\ ret'.status = "ok")
          => \A a \in ActivatorInputs :
                RemovePolicyActivatorStep(master_admin, a)
                => RejectedByPostPaymentMade(a)
       /\ \A a \in Accounts :
             (~ is_policy_manager(policy_managers, a)
              /\ ~ (ret'.op = "add_policy_activator" /\ ret'.status = "ok"))
             => RejectedByPostPaymentMade(a)
       /\ policy_managers' # policy_managers
          => \E a \in ActivatorInputs :
                \/ AddPolicyActivatorStep(master_admin, a)
                \/ RemovePolicyActivatorStep(master_admin, a)
       /\ \A caller \in Accounts \ {master_admin}, a \in ActivatorInputs :
             (AddPolicyActivatorStep(caller, a) \/ RemovePolicyActivatorStep(caller, a))
             => /\ policy_managers' = policy_managers
                /\ ret'.status # "ok"]_vars

====
